---------------------------- MODULE Spec2Model ----------------------------
(***************************************************************************)
(* Client-side pipeline of oak-d-vr-streaming: startXR (WebRTC            *)
(* negotiation, calibration load, GL setup, XR session), the ontrack and   *)
(* data-channel handlers, and the XR frame callback onXRFrame together     *)
(* with sendControllerData.                                                *)
(*                                                                         *)
(* JavaScript runs handlers to completion on one thread: every action      *)
(* below is one run of a handler or of an async function between two       *)
(* awaits of an externally resolved promise.                               *)
(***************************************************************************)
EXTENDS Integers, Sequences, FiniteSets, TLC

(***************************************************************************)
(* Bounds of the model.                                                    *)
(***************************************************************************)
\* number of clicks on "enter-vr", each starting one startXR
MaxEnters == 2
\* track events delivered to one peer connection
MaxTracks == 2
\* views one viewer pose reports
MaxViews == 2

(***************************************************************************)
(* Numbers.  A JavaScript number is modelled as an exact rational n/d      *)
(* (d > 0, lowest terms) or NaN; storing into a Float32Array rounds the    *)
(* rational to a 24-bit significand (Fround).                              *)
(***************************************************************************)
RECURSIVE GCD(_, _)
GCD(a, b) == IF b = 0 THEN a ELSE GCD(b, a % b)

Abs(x) == IF x < 0 THEN -x ELSE x

NaN == [k |-> "nan", n |-> 0, d |-> 1]

\* the rational n/d in lowest terms; x/0 does not occur for the divisors
\* the program uses (width, height and the convergence distance are
\* positive constants) and is mapped to NaN
Q(n, d) ==
  IF d = 0 THEN NaN
  ELSE LET g == GCD(Abs(n), Abs(d))
           s == IF d < 0 THEN -1 ELSE 1
       IN  [k |-> "q", n |-> (s * n) \div g, d |-> (s * d) \div g]

IsNaN(x) == x.k = "nan"

QNeg(x) == IF IsNaN(x) THEN NaN ELSE Q(-x.n, x.d)

QAdd(x, y) ==
  IF IsNaN(x) \/ IsNaN(y) THEN NaN
  ELSE LET g == GCD(x.d, y.d)
       IN  Q(x.n * (y.d \div g) + y.n * (x.d \div g), x.d * (y.d \div g))

QSub(x, y) == QAdd(x, QNeg(y))

QMul(x, y) ==
  IF IsNaN(x) \/ IsNaN(y) THEN NaN
  ELSE LET g1 == GCD(Abs(x.n), y.d)
           g2 == GCD(Abs(y.n), x.d)
           h1 == IF g1 = 0 THEN 1 ELSE g1
           h2 == IF g2 = 0 THEN 1 ELSE g2
       IN  Q((x.n \div h1) * (y.n \div h2), (x.d \div h2) * (y.d \div h1))

QDiv(x, y) ==
  IF IsNaN(x) \/ IsNaN(y) THEN NaN
  ELSE IF y.n = 0 THEN NaN
  ELSE QMul(x, Q(y.d, y.n))

\* significand bits of a 32-bit float
F32Bits == 24

RECURSIVE Pow2(_)
Pow2(e) == IF e = 0 THEN 1 ELSE 2 * Pow2(e - 1)

\* the exponent e >= 0 with a / 2^e < d <= ... , i.e. the least e with a < d * 2^e
RECURSIVE ScaleDown(_, _, _)
ScaleDown(a, d, e) == IF a < d * 2 THEN e ELSE ScaleDown(a, d * 2, e + 1)

\* the least e >= 0 with a * 2^e >= d
RECURSIVE ScaleUp(_, _, _)
ScaleUp(a, d, e) == IF a >= d THEN e ELSE ScaleUp(a * 2, d, e + 1)

\* long division: `bits` more significand bits of r/d (0 <= r < d), m so far
RECURSIVE Mantissa(_, _, _, _)
Mantissa(m, r, d, bits) ==
  IF bits = 0 THEN [m |-> m, r |-> r]
  ELSE IF 2 * r >= d THEN Mantissa(2 * m + 1, 2 * r - d, d, bits - 1)
       ELSE Mantissa(2 * m, 2 * r, d, bits - 1)

\* the number of times 2 divides m > 0
RECURSIVE TrailingZeros(_)
TrailingZeros(m) == IF m % 2 = 1 THEN 0 ELSE 1 + TrailingZeros(m \div 2)

\* Math.fround for a rational of magnitude in the normal float range:
\* round to nearest, ties to even, on a 24-bit significand
Fround(x) ==
  IF IsNaN(x) \/ x.n = 0 THEN x
  ELSE LET a  == Abs(x.n)
           s  == IF x.n < 0 THEN -1 ELSE 1
           up == IF a >= x.d THEN 0 ELSE ScaleUp(a, x.d, 0)
           dn == IF a >= x.d THEN ScaleDown(a, x.d, 0) ELSE 0
           \* a * 2^up / (d * 2^dn) lies in [1, 2)
           aa == a * Pow2(up)
           dd == x.d * Pow2(dn)
           md == Mantissa(1, aa - dd, dd, F32Bits - 1)
           rounded == IF 2 * md.r > dd \/ (2 * md.r = dd /\ md.m % 2 = 1)
                      THEN md.m + 1 ELSE md.m
           \* value = rounded * 2^(dn - up - (F32Bits - 1))
           sh == up + (F32Bits - 1) - dn
           \* lowest terms: take out the factors of two that rounded and
           \* 2^sh share
           tz == TrailingZeros(rounded)
           c  == IF sh <= 0 THEN 0 ELSE IF tz < sh THEN tz ELSE sh
       IN  IF sh >= 0
           THEN [k |-> "q", n |-> s * (rounded \div Pow2(c)),
                 d |-> Pow2(sh - c)]
           ELSE [k |-> "q", n |-> s * rounded * Pow2(-sh), d |-> 1]

(***************************************************************************)
(* JavaScript values as they come out of res.json().                       *)
(***************************************************************************)
JUndef == [t |-> "undefined"]
JNull == [t |-> "null"]
JNum(n, d) == [t |-> "number", q |-> Q(n, d)]
\* a string is the sequence of its characters
JStr(chars) == [t |-> "string", s |-> chars]
JArr(elems) == [t |-> "array", e |-> elems]
JObj(fields) == [t |-> "object", f |-> fields]
TypeError == [t |-> "TypeError"]

\* typeof v
TypeOf(v) ==
  CASE v.t = "undefined" -> "undefined"
    [] v.t = "number" -> "number"
    [] v.t = "string" -> "string"
    [] OTHER -> "object"

\* ToBoolean(v): what `!v` negates
Truthy(v) ==
  CASE v.t \in {"undefined", "null"} -> FALSE
    [] v.t = "number" -> ~IsNaN(v.q) /\ v.q.n # 0
    [] v.t = "string" -> Len(v.s) > 0
    [] OTHER -> TRUE

\* v[i]: TypeError on undefined and null, a character of a string, an
\* element of an array, undefined otherwise
Index(v, i) ==
  CASE v.t \in {"undefined", "null", "TypeError"} -> TypeError
    [] v.t = "array" -> IF i < Len(v.e) THEN v.e[i + 1] ELSE JUndef
    [] v.t = "string" -> IF i < Len(v.s) THEN JStr(<<v.s[i + 1]>>) ELSE JUndef
    [] OTHER -> JUndef

\* obj.name for a parsed JSON value: undefined when absent or when the
\* value is a primitive; TypeError on null and undefined
Field(v, name) ==
  CASE v.t \in {"undefined", "null"} -> TypeError
    [] v.t = "object" -> IF name \in DOMAIN v.f THEN v.f[name] ELSE JUndef
    [] OTHER -> JUndef

\* ToNumber(v) for the operands of - * /: the strings of the model hold
\* letters only, the arrays and objects are not single-number arrays
ToNumber(v) ==
  CASE v.t = "number" -> v.q
    [] v.t = "null" -> Q(0, 1)
    [] v.t = "string" -> IF Len(v.s) = 0 THEN Q(0, 1) ELSE NaN
    [] OTHER -> NaN

(***************************************************************************)
(* Calibration payloads and the Geometric correction.                      *)
(***************************************************************************)
Matrix(fx, cx, cy) ==
  JArr(<<JArr(<<JNum(fx, 1), JNum(0, 1), JNum(cx, 1)>>),
         JArr(<<JNum(0, 1), JNum(fx, 1), JNum(cy, 1)>>),
         JArr(<<JNum(0, 1), JNum(0, 1), JNum(1, 1)>>)>>)

\* centred principal point, and one off centre
KCentred == Matrix(800, 640, 360)
KOffCentre == Matrix(820, 650, 350)

Payload(kl, kr, b) ==
  JObj([k_left |-> kl, k_right |-> kr, baseline_m |-> b])

\* the bodies /calibration answers with in the model: two well-formed
\* profiles, and profiles with a field missing or of another type
CalibPayloads ==
  { Payload(KCentred, KOffCentre, JNum(75, 1000)),
    Payload(KOffCentre, KCentred, JNum(60, 1000)),
    JObj([k_left |-> KCentred, k_right |-> KCentred]),
    Payload(KCentred, KCentred, JStr(<<"0", ".", "1">>)),
    Payload(JNum(5, 1), KCentred, JNum(75, 1000)),
    Payload(JStr(<<"a", "b", "c">>), KCentred, JNum(75, 1000)),
    Payload(JNull, KCentred, JNum(75, 1000)),
    JObj([k_left |-> KCentred, baseline_m |-> JNum(75, 1000)]),
    Payload(KCentred, KCentred, JNum(0, 1)),
    Payload(KCentred, KCentred, JNum(-75, 1000)),
    JNull }

\* the condition of loadCalibration's `if (...) throw`, negated:
\* calib && calib.k_left && calib.k_right && typeof calib.baseline_m === "number"
CalibAccepted(c) ==
  /\ Truthy(c)
  /\ Truthy(Field(c, "k_left"))
  /\ Truthy(Field(c, "k_right"))
  /\ TypeOf(Field(c, "baseline_m")) = "number"

WIDTH == 1280
HEIGHT == 720
\* CONVERGENCE_M = 1.2
CONVERGENCE_M == Q(12, 10)

\* a variant of perEyeTexOffset whose convergence shift does not depend on
\* the convergence distance
perEyeTexOffsetFixedShift(K, width, height, baseline_m, convergence_m, eye) ==
  LET fx == Index(Index(K, 0), 0)
      cx == Index(Index(K, 0), 2)
      cy == Index(Index(K, 1), 2)
      dx_pp == QDiv(QSub(ToNumber(cx), QDiv(width, Q(2, 1))), width)
      dy_pp == QDiv(QSub(ToNumber(cy), QDiv(height, Q(2, 1))), height)
      conv_tc == QDiv(QMul(ToNumber(fx), ToNumber(baseline_m)),
                      QMul(Q(2, 1), width))
      eye_sign == IF eye = "left" THEN Q(1, 1) ELSE Q(-1, 1)
  IN  [t |-> "Float32Array",
       du |-> Fround(QAdd(QNeg(dx_pp), QMul(eye_sign, conv_tc))),
       dv |-> Fround(dy_pp)]

\* a variant of perEyeTexOffset without the principal-point terms
perEyeTexOffsetConvergenceOnly(K, width, height, baseline_m, convergence_m, eye) ==
  LET fx == Index(Index(K, 0), 0)
      conv_tc == QDiv(QMul(ToNumber(fx), ToNumber(baseline_m)),
                      QMul(QMul(Q(2, 1), convergence_m), width))
      eye_sign == IF eye = "left" THEN Q(1, 1) ELSE Q(-1, 1)
  IN  [t |-> "Float32Array", du |-> Fround(QMul(eye_sign, conv_tc)),
       dv |-> Q(0, 1)]

\* a variant of perEyeTexOffset that shifts both eyes the same way
perEyeTexOffsetSameSign(K, width, height, baseline_m, convergence_m, eye) ==
  LET fx == Index(Index(K, 0), 0)
      cx == Index(Index(K, 0), 2)
      cy == Index(Index(K, 1), 2)
      dx_pp == QDiv(QSub(ToNumber(cx), QDiv(width, Q(2, 1))), width)
      dy_pp == QDiv(QSub(ToNumber(cy), QDiv(height, Q(2, 1))), height)
      conv_tc == QDiv(QMul(ToNumber(fx), ToNumber(baseline_m)),
                      QMul(QMul(Q(2, 1), convergence_m), width))
  IN  [t |-> "Float32Array", du |-> Fround(QAdd(QNeg(dx_pp), conv_tc)),
       dv |-> Fround(dy_pp)]

\* function perEyeTexOffset(K, width, height, baseline_m, convergence_m, eye)
\* width, height and convergence_m are numbers (rationals), K and baseline_m
\* are values of the payload.  The result is a Float32Array or the TypeError
\* a property read of undefined raises.
perEyeTexOffset(K, width, height, baseline_m, convergence_m, eye) ==
  LET r0 == Index(K, 0)
      fx == Index(r0, 0)
      cx == Index(r0, 2)
      r1 == Index(K, 1)
      cy == Index(r1, 2)
  IN  IF TypeError \in {r0, fx, cx, r1, cy} THEN TypeError
      ELSE
        LET dx_pp == QDiv(QSub(ToNumber(cx), QDiv(width, Q(2, 1))), width)
            dy_pp == QDiv(QSub(ToNumber(cy), QDiv(height, Q(2, 1))), height)
            conv_tc == QDiv(QMul(ToNumber(fx), ToNumber(baseline_m)),
                            QMul(QMul(Q(2, 1), convergence_m), width))
            eye_sign == IF eye = "left" THEN Q(1, 1) ELSE Q(-1, 1)
            du == QAdd(QNeg(dx_pp), QMul(eye_sign, conv_tc))
            dv == dy_pp
        IN  [t |-> "Float32Array", du |-> Fround(du), dv |-> Fround(dv)]

(***************************************************************************)
(* State.                                                                  *)
(***************************************************************************)
VARIABLES
  navigatorXR,         \* whether navigator.xr exists
  at,                  \* per enter click: where its startXR is suspended
  startLog,            \* per enter click: what its startXR did and received
  pc,                  \* `let pc`: 0 or the connection of the click that set it
  dataChannel,         \* `let dataChannel`: 0 (null) or a channel
  peers,               \* the RTCPeerConnection objects, one per click
  channels,            \* the RTCDataChannel objects, one per click
  srcObject,           \* leftVideo.srcObject and rightVideo.srcObject
  calib, texOffsetLeft, texOffsetRight,
  offsetCall,          \* a call of perEyeTexOffset on its own: arguments, results
  gl, program, uTexOffsetLoc, samplerLoc,
  xrSession, xrLayer, xrRefSpace,
  rafPending,          \* per XR session: frame callbacks requested, not yet run
  hasLoggedLeftVideo, hasLoggedRightVideo,
  frameLog,            \* what the last run of onXRFrame observed and did
  controllerCall,      \* the controller messages built from one list of
                       \* input sources, on their own
  projLeft, projRight, \* src/static/index.js: the per-eye shift matrices
  uProjectionLoc       \* src/static/index.js: location of uProjection

vars == <<navigatorXR, at, startLog, pc, dataChannel, peers, channels,
          srcObject, calib, texOffsetLeft, texOffsetRight, offsetCall, gl,
          program,
          uTexOffsetLoc, samplerLoc, xrSession, xrLayer, xrRefSpace,
          rafPending, hasLoggedLeftVideo, hasLoggedRightVideo, frameLog,
          controllerCall, projLeft, projRight, uProjectionLoc>>

rtcVars == <<pc, dataChannel, peers, channels>>
glVars == <<gl, program, uTexOffsetLoc, samplerLoc, uProjectionLoc>>
calibVars == <<calib, texOffsetLeft, texOffsetRight, offsetCall, projLeft,
               projRight>>
xrVars == <<xrSession, xrLayer, xrRefSpace, rafPending>>
frameVars == <<hasLoggedLeftVideo, hasLoggedRightVideo, frameLog,
               controllerCall>>

Enters == 1 .. MaxEnters

\* one entry of startLog: an operation, the object (connection or session)
\* it was invoked on, a word and a value received
SEv(op, on, arg, val) == [op |-> op, on |-> on, arg |-> arg, val |-> val]

NoTrack == [pc |-> 0, n |-> 0]

\* `new RTCPeerConnection(...)` followed by the two addTransceiver calls
NewPeer ==
  [created |-> TRUE,
   transceivers |-> <<[kind |-> "video", direction |-> "recvonly"],
                      [kind |-> "video", direction |-> "recvonly"]>>,
   localDescription |-> 0, remoteDescription |-> 0,
   videoCount |-> 0, tracks |-> <<>>]

NoPeer ==
  [created |-> FALSE, transceivers |-> <<>>,
   localDescription |-> 0, remoteDescription |-> 0,
   videoCount |-> 0, tracks |-> <<>>]

\* the RTCDataChannelInit of pc.createDataChannel("poseData", {...})
DataChannelInit == [ordered |-> TRUE, maxRetransmits |-> 0]

NewChannel ==
  [created |-> TRUE, label |-> "poseData",
   ordered |-> DataChannelInit.ordered,
   maxRetransmits |-> DataChannelInit.maxRetransmits,
   readyState |-> "connecting"]

NoChannel ==
  [created |-> FALSE, label |-> "", ordered |-> TRUE, maxRetransmits |-> -1,
   readyState |-> "none"]

Null == [t |-> "null"]

\* perEyeTexOffset is not called but by startXR
NoCall == [t |-> "none"]

Init ==
  /\ navigatorXR \in BOOLEAN
  /\ at = [e \in Enters |-> "idle"]
  /\ startLog = [e \in Enters |-> <<>>]
  /\ pc = 0
  /\ dataChannel = 0
  /\ peers = [e \in Enters |-> NoPeer]
  /\ channels = [e \in Enters |-> NoChannel]
  /\ srcObject = [left |-> NoTrack, right |-> NoTrack]
  /\ calib = Null
  /\ texOffsetLeft = Null
  /\ texOffsetRight = Null
  /\ offsetCall = NoCall
  /\ gl = FALSE
  /\ program = "null"
  /\ uTexOffsetLoc = FALSE
  /\ samplerLoc = FALSE
  /\ xrSession = 0
  /\ xrLayer = 0
  /\ xrRefSpace = 0
  /\ rafPending = [e \in Enters |-> 0]
  /\ hasLoggedLeftVideo = FALSE
  /\ hasLoggedRightVideo = FALSE
  /\ frameLog = <<>>
  /\ projLeft = Null
  /\ projRight = Null
  /\ uProjectionLoc = FALSE
  /\ controllerCall = NoCall

(***************************************************************************)
(* startXR, up to the end of startWebRTC.                                  *)
(***************************************************************************)
Log(e, evs) == startLog' = [startLog EXCEPT ![e] = @ \o evs]

\* the catch of startXR: logError("Startup failed", err); return
StartupFailed(e, evs) ==
  /\ at' = [at EXCEPT ![e] = "failed"]
  /\ Log(e, evs \o <<SEv("logError", 0, "Startup failed", JUndef)>>)

\* click on enter-vr: startXR runs into startWebRTC up to `await pc.createOffer()`
Click(e) ==
  /\ at[e] = "idle"
  /\ \A f \in Enters : f < e => at[f] # "idle"
  /\ IF ~navigatorXR
     THEN /\ at' = [at EXCEPT ![e] = "returned"]
          /\ Log(e, <<SEv("logError", 0, "WebXR not supported", JUndef)>>)
          /\ UNCHANGED rtcVars
     ELSE /\ pc' = e
          /\ peers' = [peers EXCEPT ![e] = NewPeer]
          /\ dataChannel' = e
          /\ channels' = [channels EXCEPT ![e] = NewChannel]
          /\ at' = [at EXCEPT ![e] = "createOffer"]
          /\ Log(e, <<SEv("createDataChannel", e, "poseData", JUndef),
                      SEv("createOffer", e, "", JUndef)>>)
  /\ UNCHANGED <<navigatorXR, srcObject, calibVars, glVars, xrVars, frameVars>>

\* createOffer resolved: `await pc.setLocalDescription(offer)` on the
\* connection `pc` names now
OfferCreated(e) ==
  /\ at[e] = "createOffer"
  /\ at' = [at EXCEPT ![e] = "setLocalDescription"]
  /\ Log(e, <<SEv("setLocalDescription", pc, "offer", JUndef)>>)
  /\ UNCHANGED <<navigatorXR, rtcVars, srcObject, calibVars, glVars, xrVars,
                 frameVars>>

\* the connection setLocalDescription / setRemoteDescription of click e
\* was invoked on
CalledOn(e, op) ==
  LET idx == {i \in DOMAIN startLog[e] : startLog[e][i].op = op}
  IN  IF idx = {} THEN 0
      ELSE startLog[e][CHOOSE i \in idx : \A j \in idx : j <= i].on

\* setLocalDescription settled.  The browser applies an offer to the
\* connection that created it; whether it accepts the offer of another
\* connection is left open.  Then fetch("/offer", ...)
LocalDescriptionSet(e, ok) ==
  /\ at[e] = "setLocalDescription"
  /\ LET target == CalledOn(e, "setLocalDescription")
     IN  /\ (target = e => ok)
         /\ IF ok
            THEN /\ peers' = [peers EXCEPT ![target].localDescription = e]
                 /\ at' = [at EXCEPT ![e] = "fetchOffer"]
                 /\ Log(e, <<SEv("fetch", 0, "/offer", JUndef)>>)
            ELSE /\ StartupFailed(e, <<>>)
                 /\ UNCHANGED peers
  /\ UNCHANGED <<navigatorXR, pc, dataChannel, channels, srcObject, calibVars,
                 glVars, xrVars, frameVars>>

\* what the signaling endpoint can answer: an HTTP status and a body that
\* is an answer {sdp, type}, an {error}, another JSON object, or no JSON
SignalingResponses ==
  [status : {200, 500}, body : {"answer", "error", "other", "notjson"}]

\* the rest of startWebRTC once fetch("/offer") resolved:
\*   const answer = await response.json();
\*   if (answer.error) throw new Error(answer.error);
\*   await pc.setRemoteDescription(answer);
\* TRUE when setRemoteDescription is reached
\* a variant of AnswerApplied that skips `if (answer.error) throw`: every
\* JSON body reaches setRemoteDescription
AnswerAppliedWithoutErrorCheck(response) == response.body # "notjson"

AnswerApplied(response) == response.body \in {"answer", "other"}

OfferResponse(e, response, neterr) ==
  /\ at[e] = "fetchOffer"
  /\ IF neterr
     THEN StartupFailed(e, <<SEv("response", 0, "network error", JUndef)>>)
     ELSE LET got == SEv("response", response.status, response.body, JUndef)
          IN  IF AnswerApplied(response)
              THEN /\ at' = [at EXCEPT ![e] = "setRemoteDescription"]
                   /\ Log(e, <<got, SEv("setRemoteDescription", pc,
                                        response.body, JUndef)>>)
              ELSE StartupFailed(e, <<got>>)
  /\ UNCHANGED <<navigatorXR, rtcVars, srcObject, calibVars, glVars, xrVars,
                 frameVars>>

\* setRemoteDescription settled; on success startWebRTC returns and startXR
\* goes on into loadCalibration up to `await fetch("/calibration")`.
\* A body that is no session description is rejected by the browser, and
\* so is an answer for a connection that has no local offer pending; an
\* answer to the offer of another connection may or may not be accepted.
RemoteDescriptionSet(e, ok) ==
  /\ at[e] = "setRemoteDescription"
  /\ LET target == CalledOn(e, "setRemoteDescription")
         body == startLog[e][Len(startLog[e])].arg
         possible == /\ body = "answer"
                     /\ peers[target].localDescription # 0
                     /\ peers[target].remoteDescription = 0
     IN  /\ (ok => possible)
         /\ (possible /\ peers[target].localDescription = e => ok)
         /\ IF ok
            THEN /\ peers' = [peers EXCEPT ![target].remoteDescription = e]
                 /\ at' = [at EXCEPT ![e] = "fetchCalibration"]
                 /\ Log(e, <<SEv("fetch", 0, "/calibration", JUndef)>>)
            ELSE /\ StartupFailed(e, <<>>)
                 /\ UNCHANGED peers
  /\ UNCHANGED <<navigatorXR, pc, dataChannel, channels, srcObject, calibVars,
                 glVars, xrVars, frameVars>>

(***************************************************************************)
(* pc.ontrack and the data channel's handlers.                             *)
(***************************************************************************)
NullMid == "null"
Mids == {NullMid, "0", "1", "2"}

\* the track events of the model: kind, whether event.transceiver exists,
\* and its mid (the null mid when there is no transceiver to read it from;
\* ontrack reads neither of an audio track)
TrackEvents ==
  {ev \in [kind : {"video", "audio"}, transceiver : BOOLEAN, mid : Mids] :
     /\ ~ev.transceiver => ev.mid = NullMid
     /\ ev.kind = "audio" => ~ev.transceiver}

\* a variant of TargetVideo that binds by arrival order alone, whatever
\* the mid
TargetVideoByArrival(event, videoCount) ==
  IF videoCount = 0 THEN "left" ELSE "right"

\* the element ontrack picks for a video track: "left" for leftVideo,
\* "right" for rightVideo
TargetVideo(event, videoCount) ==
  IF event.transceiver /\ event.mid # NullMid
  THEN (IF event.mid = "0" THEN "left" ELSE "right")
  ELSE (IF videoCount = 0 THEN "left" ELSE "right")

\* pc.ontrack of connection c; peers[c].tracks keeps the events the
\* connection has delivered, and a stream is named by its connection and
\* the position of its track among them
OnTrack(c, event) ==
  /\ peers[c].remoteDescription # 0
  /\ Len(peers[c].tracks) < MaxTracks
  /\ LET track == [pc |-> c, n |-> Len(peers[c].tracks) + 1]
     IN  IF event.kind # "video"
         THEN /\ peers' = [peers EXCEPT ![c].tracks = Append(@, event)]
              /\ UNCHANGED srcObject
         ELSE /\ srcObject' =
                   [srcObject EXCEPT
                      ![TargetVideo(event, peers[c].videoCount)] = track]
              /\ peers' = [peers EXCEPT ![c].tracks = Append(@, event),
                                        ![c].videoCount = @ + 1]
  /\ UNCHANGED <<navigatorXR, at, startLog, pc, dataChannel, channels,
                 calibVars, glVars, xrVars, frameVars>>

\* the channel opens once its connection is established; dataChannel.onopen
\* only sets the status line
ChannelOpen(c) ==
  /\ channels[c].readyState = "connecting"
  /\ peers[c].remoteDescription # 0
  /\ channels' = [channels EXCEPT ![c].readyState = "open"]
  /\ UNCHANGED <<navigatorXR, at, startLog, pc, dataChannel, peers, srcObject,
                 calibVars, glVars, xrVars, frameVars>>

\* the closing procedure starts: readyState "closing", no handler set
ChannelClosing(c) ==
  /\ channels[c].readyState = "open"
  /\ channels' = [channels EXCEPT ![c].readyState = "closing"]
  /\ UNCHANGED <<navigatorXR, at, startLog, pc, dataChannel, peers, srcObject,
                 calibVars, glVars, xrVars, frameVars>>

\* the channel is closed and dataChannel.onclose runs:
\*   dataChannel = null; setStatus("Data channel closed")
ChannelClosed(c) ==
  /\ channels[c].readyState \in {"connecting", "open", "closing"}
  /\ channels' = [channels EXCEPT ![c].readyState = "closed"]
  /\ dataChannel' = 0
  /\ UNCHANGED <<navigatorXR, at, startLog, pc, peers, srcObject,
                 calibVars, glVars, xrVars, frameVars>>

(***************************************************************************)
(* loadCalibration and the rest of startXR.                                *)
(***************************************************************************)
\* what /calibration can answer: res.ok and a body (a JSON value, or text
\* that res.json() cannot parse)
NotJson == [t |-> "notjson"]
CalibResponses ==
  [ok : BOOLEAN, body : CalibPayloads \cup {NotJson}]

\* a variant of loadCalibration without its `if (...) throw`
loadCalibrationUnvalidated(res) ==
  IF ~res.ok \/ res.body = NotJson
  THEN [result |-> "throw", assigned |-> FALSE]
  ELSE [result |-> "ok", assigned |-> TRUE]

\* loadCalibration from the response on: "ok" when it returns, "throw"
\* when it throws
loadCalibration(res) ==
  IF ~res.ok THEN [result |-> "throw", assigned |-> FALSE]
  ELSE IF res.body = NotJson THEN [result |-> "throw", assigned |-> FALSE]
  ELSE IF ~CalibAccepted(res.body) THEN [result |-> "throw", assigned |-> TRUE]
  ELSE [result |-> "ok", assigned |-> TRUE]

\* outcomes of initGLResources: no WebGL context, a shader that does not
\* compile, a program that does not link, success
GLOutcomes == {"noContext", "compileFail", "linkFail", "ok"}

\* the number k_left[0][0] that startXR formats with toFixed; TypeError
\* when it is not a number
FxForLog(c) ==
  LET fx == Index(Index(Field(c, "k_left"), 0), 0)
  IN  IF fx.t = "number" THEN fx ELSE TypeError

\* startXR after loadCalibration returned, up to `await requestSession`:
\* the state it leaves, as a record
StartXRTail(c, glOutcome) ==
  LET needInit == ~gl
      initOk == ~needInit \/ glOutcome = "ok"
      left == perEyeTexOffset(Field(c, "k_left"), Q(WIDTH, 1), Q(HEIGHT, 1),
                              Field(c, "baseline_m"), CONVERGENCE_M, "left")
      right == perEyeTexOffset(Field(c, "k_right"), Q(WIDTH, 1), Q(HEIGHT, 1),
                               Field(c, "baseline_m"), CONVERGENCE_M, "right")
      glAfter == IF needInit
                 THEN [gl |-> glOutcome # "noContext",
                       program |-> CASE glOutcome = "ok" -> "linked"
                                     [] glOutcome = "linkFail" -> "unlinked"
                                     [] OTHER -> "null",
                       uTexOffsetLoc |-> glOutcome = "ok",
                       samplerLoc |-> glOutcome = "ok"]
                 ELSE [gl |-> gl, program |-> program,
                       uTexOffsetLoc |-> uTexOffsetLoc,
                       samplerLoc |-> samplerLoc]
      calledInit == IF needInit
                    THEN <<SEv("initGLResources", 0, glOutcome, JUndef)>>
                    ELSE <<>>
      base == [gl |-> glAfter, left |-> texOffsetLeft,
               right |-> texOffsetRight]
  IN  IF ~initOk
      THEN base @@ [at |-> "failed",
                    log |-> calledInit \o
                            <<SEv("logError", 0, "WebGL init failed", JUndef)>>]
      ELSE IF left = TypeError
      THEN base @@ [at |-> "rejected",
                    log |-> calledInit \o
                            <<SEv("perEyeTexOffset", 0, "left", left)>>]
      ELSE IF right = TypeError
      THEN [base EXCEPT !.left = left] @@
           [at |-> "rejected",
            log |-> calledInit \o
                    <<SEv("perEyeTexOffset", 0, "left", left),
                      SEv("perEyeTexOffset", 0, "right", right)>>]
      ELSE [base EXCEPT !.left = left, !.right = right] @@
           [at |-> IF FxForLog(c) = TypeError THEN "rejected"
                   ELSE "requestSession",
            log |-> calledInit \o
                    <<SEv("perEyeTexOffset", 0, "left", left),
                      SEv("perEyeTexOffset", 0, "right", right)>> \o
                    (IF FxForLog(c) = TypeError THEN <<>>
                     ELSE <<SEv("requestSession", 0, "immersive-vr", JUndef)>>)]

\* fetch("/calibration") resolved: the rest of loadCalibration and, when
\* it returns, startXR up to `await navigator.xr.requestSession(...)`
CalibResponse(e, res, glOutcome) ==
  /\ at[e] = "fetchCalibration"
  /\ LET r == loadCalibration(res)
         got == SEv("calibration", IF res.ok THEN 200 ELSE 500, r.result,
                    res.body)
     IN  /\ calib' = IF r.assigned THEN res.body ELSE calib
         /\ IF r.result = "throw"
            THEN /\ at' = [at EXCEPT ![e] = "failed"]
                 /\ Log(e, <<got,
                             SEv("logError", 0, "Failed to load calibration",
                                 JUndef),
                             SEv("logError", 0, "Startup failed", JUndef)>>)
                 /\ UNCHANGED <<texOffsetLeft, texOffsetRight, gl, program,
                                uTexOffsetLoc, samplerLoc>>
            ELSE \E t \in {StartXRTail(res.body, glOutcome)} :
                     /\ at' = [at EXCEPT ![e] = t.at]
                     /\ Log(e, <<got>> \o t.log)
                     /\ texOffsetLeft' = t.left
                     /\ texOffsetRight' = t.right
                     /\ gl' = t.gl.gl
                     /\ program' = t.gl.program
                     /\ uTexOffsetLoc' = t.gl.uTexOffsetLoc
                     /\ samplerLoc' = t.gl.samplerLoc
  /\ UNCHANGED <<navigatorXR, rtcVars, srcObject, offsetCall, projLeft,
                 projRight, uProjectionLoc, xrVars, frameVars>>

\* requestSession settled: xrSession = the new session;
\* await gl.makeXRCompatible()
SessionGranted(e, ok) ==
  /\ at[e] = "requestSession"
  /\ IF ok
     THEN /\ xrSession' = e
          /\ at' = [at EXCEPT ![e] = "makeXRCompatible"]
          /\ Log(e, <<SEv("makeXRCompatible", 0, "", JUndef)>>)
     ELSE /\ at' = [at EXCEPT ![e] = "rejected"]
          /\ Log(e, <<SEv("rejected", 0, "requestSession", JUndef)>>)
          /\ UNCHANGED xrSession
  /\ UNCHANGED <<navigatorXR, rtcVars, srcObject, calibVars, glVars, xrLayer,
                 xrRefSpace, rafPending, frameVars>>

\* makeXRCompatible resolved: the layer is made for, and the reference
\* space requested of, the session xrSession names now
CompatibleMade(e) ==
  /\ at[e] = "makeXRCompatible"
  /\ xrLayer' = xrSession
  /\ at' = [at EXCEPT ![e] = "requestReferenceSpace"]
  /\ Log(e, <<SEv("requestReferenceSpace", xrSession, "local-floor", JUndef)>>)
  /\ UNCHANGED <<navigatorXR, rtcVars, srcObject, calibVars, glVars, xrSession,
                 xrRefSpace, rafPending, frameVars>>

\* requestReferenceSpace resolved:
\*   xrSession.requestAnimationFrame(onXRFrame)
ReferenceSpaceGot(e) ==
  /\ at[e] = "requestReferenceSpace"
  /\ xrRefSpace' = CalledOn(e, "requestReferenceSpace")
  /\ rafPending' = [rafPending EXCEPT ![xrSession] = @ + 1]
  /\ at' = [at EXCEPT ![e] = "done"]
  /\ Log(e, <<SEv("requestAnimationFrame", xrSession, "", JUndef)>>)
  /\ UNCHANGED <<navigatorXR, rtcVars, srcObject, calibVars, glVars, xrSession,
                 xrLayer, frameVars>>

(***************************************************************************)
(* sendControllerData: the controller message.                             *)
(***************************************************************************)
NoGamepad == [present |-> FALSE, axes |-> <<>>, buttons |-> <<>>]
Gamepad(axes, pressed) == [present |-> TRUE, axes |-> axes, buttons |-> pressed]
InputSource(hand, gamepad) == [handedness |-> hand, gamepad |-> gamepad]

\* btns[i] && btns[i].pressed
Pressed(btns, i) == i < Len(btns) /\ btns[i + 1]

\* a variant of ButtonKeys whose aliases do not look at the hand: a grip
\* of either hand sets both lights and horn
ButtonKeysAliasesAnyHand(src) ==
  LET btns == src.gamepad.buttons
      hand == src.handedness
  IN  (IF Pressed(btns, 0) THEN {hand \o "_trigger"} ELSE {})
      \cup (IF Pressed(btns, 1) THEN {hand \o "_grip", "lights", "horn"} ELSE {})
      \cup (IF Pressed(btns, 4) THEN {"plow_up"} ELSE {})
      \cup (IF Pressed(btns, 5) THEN {"plow_down"} ELSE {})

\* the keys one input source sets to true in controllerMessage.buttons
ButtonKeys(src) ==
  LET btns == src.gamepad.buttons
      hand == src.handedness
  IN  (IF Pressed(btns, 0) THEN {hand \o "_trigger"} ELSE {})
      \cup (IF Pressed(btns, 1) THEN {hand \o "_grip"} ELSE {})
      \cup (IF Pressed(btns, 4) THEN {"plow_up"} ELSE {})
      \cup (IF Pressed(btns, 5) THEN {"plow_down"} ELSE {})
      \cup (IF hand = "right" /\ Pressed(btns, 1) THEN {"lights"} ELSE {})
      \cup (IF hand = "left" /\ Pressed(btns, 1) THEN {"horn"} ELSE {})

\* the loop `for (const inputSource of inputSources)` from source i on
RECURSIVE PollSources(_, _, _)
PollSources(inputSources, i, msg) ==
  IF i > Len(inputSources) THEN msg
  ELSE LET src == inputSources[i]
           gp == src.gamepad
           stick == [x |-> gp.axes[3], y |-> -gp.axes[4]]
           hasStick == Len(gp.axes) >= 4
           m1 == IF hasStick /\ src.handedness = "left"
                 THEN [msg EXCEPT !.leftJoystick = stick] ELSE msg
           m2 == IF hasStick /\ src.handedness = "right"
                 THEN [m1 EXCEPT !.rightJoystick = stick] ELSE m1
           m3 == [m2 EXCEPT !.buttons = @ \cup ButtonKeys(src)]
       IN  IF ~gp.present THEN PollSources(inputSources, i + 1, msg)
           ELSE PollSources(inputSources, i + 1, m3)

\* the controllerMessage sendControllerData builds; now is Date.now()
ControllerMessage(inputSources, now) ==
  PollSources(inputSources, 1,
              [type |-> "controller", timestamp |-> now,
               leftJoystick |-> [x |-> 0, y |-> 0],
               rightJoystick |-> [x |-> 0, y |-> 0],
               buttons |-> {}])

(***************************************************************************)
(* onXRFrame.                                                              *)
(***************************************************************************)
\* one step of a frame: the operation, the eye it concerns, a value, and
\* the handler that catches what it throws ("frame": the try of onXRFrame,
\* "local": a try around the operation itself)
Op(op, eye, val, catch) == [op |-> op, eye |-> eye, val |-> val, catch |-> catch]

NoVal == [t |-> "undefined"]
Flag(b) == [t |-> "boolean", b |-> b]

\* JSON of the pose message
PoseMessage(pose) ==
  [type |-> "pose",
   position |-> [x |-> pose.position.x, y |-> pose.position.y,
                 z |-> pose.position.z],
   orientation |-> [x |-> pose.orientation.x, y |-> pose.orientation.y,
                    z |-> pose.orientation.z, w |-> pose.orientation.w]]

\* a variant of ChannelIsOpen that tests the variable only, not readyState
ChannelIsOpenAnyState == dataChannel # 0

\* dataChannel && dataChannel.readyState === "open", the condition of the
\* pose send; sendControllerData returns on its negation
ChannelIsOpen ==
  dataChannel # 0 /\ channels[dataChannel].readyState = "open"

\* what a read of the variable dataChannel and of its readyState yields
ChannelSeen ==
  [t |-> "channel", ref |-> dataChannel,
   readyState |-> IF dataChannel = 0 THEN "none"
                  ELSE channels[dataChannel].readyState]

\* a variant of updateTextureFromVideo without its try / catch
UpdateTextureOpsUncaught(eye, ready, hl, hr) ==
  <<Op("video.readyState", eye, Flag(ready), "frame")>> \o
  (IF ~ready
   THEN (IF eye = "left" /\ ~hl
         THEN <<Op("setStatus", "left", [t |-> "Left video not ready yet"],
                   "frame")>>
         ELSE <<>>) \o
        (IF eye = "right" /\ ~hr
         THEN <<Op("setStatus", "right", [t |-> "Right video not ready yet"],
                   "frame")>>
         ELSE <<>>)
   ELSE <<Op("texImage2D", eye, NoVal, "frame")>>)

\* a variant of updateTextureFromVideo that reports a stalled video
\* whether or not it has been reported before
UpdateTextureOpsEveryStall(eye, ready, hl, hr) ==
  <<Op("video.readyState", eye, Flag(ready), "frame")>> \o
  (IF ~ready
   THEN (IF eye = "left"
         THEN <<Op("setStatus", "left", [t |-> "Left video not ready yet"],
                   "frame")>>
         ELSE <<Op("setStatus", "right", [t |-> "Right video not ready yet"],
                   "frame")>>)
   ELSE <<Op("texImage2D", eye, NoVal, "local")>>)

\* a variant of updateTextureFromVideo that uploads the video whether or
\* not it is decodable
UpdateTextureOpsAlwaysUpload(eye, ready, hl, hr) ==
  <<Op("video.readyState", eye, Flag(ready), "frame"),
    Op("texImage2D", eye, NoVal, "local")>>

\* updateTextureFromVideo(texture, video) for one eye, hl / hr the two
\* hasLogged flags as they stand
UpdateTextureOps(eye, ready, hl, hr) ==
  <<Op("video.readyState", eye, Flag(ready), "frame")>> \o
  (IF ~ready
   THEN (IF eye = "left" /\ ~hl
         THEN <<Op("setStatus", "left", [t |-> "Left video not ready yet"],
                   "frame")>>
         ELSE <<>>) \o
        (IF eye = "right" /\ ~hr
         THEN <<Op("setStatus", "right", [t |-> "Right video not ready yet"],
                   "frame")>>
         ELSE <<>>)
   ELSE <<Op("texImage2D", eye, NoVal, "local")>>)

\* new Float32Array([0, 0])
ZeroOffset == [t |-> "Float32Array", du |-> Q(0, 1), dv |-> Q(0, 1)]

\* a variant of the view loop that picks texture and offset by the index
\* of the view: the first view left, the others right
RECURSIVE ViewOpsByIndex(_, _, _, _, _)
ViewOpsByIndex(views, i, ready, hl, hr) ==
  IF i > Len(views) THEN <<>>
  ELSE LET view == views[i]
           isLeft == i = 1
           tex == IF isLeft THEN "left" ELSE "right"
           offset == IF isLeft THEN texOffsetLeft ELSE texOffsetRight
           stalled == ~ready[tex]
       IN  <<Op("viewport", view, NoVal, "frame")>> \o
           UpdateTextureOps(tex, ready[tex], hl, hr) \o
           <<Op("bindTexture", tex, NoVal, "frame")>> \o
           (IF samplerLoc THEN <<Op("uniform1i", tex, NoVal, "frame")>>
            ELSE <<>>) \o
           (IF uTexOffsetLoc
            THEN (IF offset.t = "null"
                  THEN <<Op("new Float32Array", tex, ZeroOffset, "frame"),
                         Op("uniform2fv", tex, ZeroOffset, "frame")>>
                  ELSE <<Op("uniform2fv", tex, offset, "frame")>>)
            ELSE <<>>) \o
           <<Op("drawArrays", view, NoVal, "frame")>> \o
           ViewOpsByIndex(views, i + 1, ready,
                          hl \/ (stalled /\ tex = "left"),
                          hr \/ (stalled /\ tex = "right"))

\* the body of `for (let i = 0; i < views.length; i++)` from view i on
RECURSIVE ViewOps(_, _, _, _, _)
ViewOps(views, i, ready, hl, hr) ==
  IF i > Len(views) THEN <<>>
  ELSE LET view == views[i]
           isLeft == view = "left"
           tex == IF isLeft THEN "left" ELSE "right"
           offset == IF isLeft THEN texOffsetLeft ELSE texOffsetRight
           stalled == ~ready[tex]
       IN  <<Op("viewport", view, NoVal, "frame")>> \o
           UpdateTextureOps(tex, ready[tex], hl, hr) \o
           <<Op("bindTexture", tex, NoVal, "frame")>> \o
           (IF samplerLoc THEN <<Op("uniform1i", tex, NoVal, "frame")>>
            ELSE <<>>) \o
           (IF uTexOffsetLoc
            THEN (IF offset.t = "null"
                  THEN <<Op("new Float32Array", tex, ZeroOffset, "frame"),
                         Op("uniform2fv", tex, ZeroOffset, "frame")>>
                  ELSE <<Op("uniform2fv", tex, offset, "frame")>>)
            ELSE <<>>) \o
           <<Op("drawArrays", view, NoVal, "frame")>> \o
           ViewOps(views, i + 1, ready,
                   hl \/ (stalled /\ tex = "left"),
                   hr \/ (stalled /\ tex = "right"))

\* a variant of NoPoseOps that clears the layer before it requests a frame
NoPoseOpsClearing ==
  <<Op("clear", "", NoVal, "frame"),
    Op("requestAnimationFrame", "", NoVal, "frame")>>

\* if (!pose) { session.requestAnimationFrame(onXRFrame); return; }
NoPoseOps == <<Op("requestAnimationFrame", "", NoVal, "frame")>>

\* a variant of TelemetryOps that sends the controller message before the
\* pose message
TelemetryOpsControllerFirst(in) ==
  <<Op("inputSources", "", NoVal, "frame")>> \o
  <<Op("dataChannel.readyState", "", ChannelSeen, "frame")>> \o
  (IF ChannelIsOpen
   THEN <<Op("send", "", ControllerMessage(in.inputSources, in.now),
             "local")>>
   ELSE <<>>) \o
  <<Op("dataChannel.readyState", "", ChannelSeen, "frame")>> \o
  (IF ChannelIsOpen
   THEN <<Op("send", "", PoseMessage(in.pose), "frame")>> ELSE <<>>)

\* the pose send and sendControllerData(session.inputSources)
TelemetryOps(in) ==
  <<Op("dataChannel.readyState", "", ChannelSeen, "frame")>> \o
  (IF ChannelIsOpen
   THEN <<Op("send", "", PoseMessage(in.pose), "frame")>> ELSE <<>>) \o
  <<Op("inputSources", "", NoVal, "frame")>> \o
  <<Op("dataChannel.readyState", "", ChannelSeen, "frame")>> \o
  (IF ChannelIsOpen
   THEN <<Op("send", "", ControllerMessage(in.inputSources, in.now),
             "local")>>
   ELSE <<>>)

\* a variant of NoSamplerOps that returns without requesting a frame
NoSamplerOpsWithoutRequest ==
  <<Op("setStatus", "", [t |-> "Waiting for GL sampler"], "frame")>>

\* if (!samplerLoc) { setStatus(...); session.requestAnimationFrame(...); return; }
NoSamplerOps ==
  <<Op("setStatus", "", [t |-> "Waiting for GL sampler"], "frame"),
    Op("requestAnimationFrame", "", NoVal, "frame")>>

\* a variant of DrawOps that draws the views only while the head is at the
\* position of PoseA
DrawOpsPoseDriven(in) ==
  <<Op("bindFramebuffer", "", NoVal, "frame"),
    Op("clear", "", NoVal, "frame"),
    Op("useProgram", "", NoVal, "frame"),
    Op("pose.views", "", [t |-> "views", eyes |-> in.views], "frame")>> \o
  (IF in.pose.position.x = 0
   THEN ViewOps(in.views, 1, in.ready, hasLoggedLeftVideo, hasLoggedRightVideo)
   ELSE <<>>) \o
  <<Op("requestAnimationFrame", "", NoVal, "frame")>>

\* a variant of DrawOps that requests the next frame before the view loop
DrawOpsRequestFirst(in) ==
  <<Op("bindFramebuffer", "", NoVal, "frame"),
    Op("clear", "", NoVal, "frame"),
    Op("useProgram", "", NoVal, "frame"),
    Op("requestAnimationFrame", "", NoVal, "frame"),
    Op("pose.views", "", [t |-> "views", eyes |-> in.views], "frame")>> \o
  ViewOps(in.views, 1, in.ready, hasLoggedLeftVideo, hasLoggedRightVideo)

\* the frame is drawn: the layer is cleared, one pass per view, and
\* session.requestAnimationFrame(onXRFrame)
DrawOps(in) ==
  <<Op("bindFramebuffer", "", NoVal, "frame"),
    Op("clear", "", NoVal, "frame"),
    Op("useProgram", "", NoVal, "frame"),
    Op("pose.views", "", [t |-> "views", eyes |-> in.views], "frame")>> \o
  ViewOps(in.views, 1, in.ready, hasLoggedLeftVideo, hasLoggedRightVideo) \o
  <<Op("requestAnimationFrame", "", NoVal, "frame")>>

\* a variant of FrameOps that draws whether or not the sampler location
\* is there
FrameOpsAlwaysDrawing(in) ==
  <<Op("getViewerPose", "", in.pose, "frame")>> \o
  IF in.pose.t = "null" THEN NoPoseOps
  ELSE TelemetryOps(in) \o DrawOps(in)

\* the operations the try block of onXRFrame performs, in order, when
\* nothing throws.  in: the viewer pose (Null when unavailable), its
\* views, the readiness of the two videos, the input sources and the clock
FrameOps(in) ==
  <<Op("getViewerPose", "", in.pose, "frame")>> \o
  IF in.pose.t = "null" THEN NoPoseOps
  ELSE TelemetryOps(in) \o (IF ~samplerLoc THEN NoSamplerOps ELSE DrawOps(in))

\* whether operation o is the one the fault makes throw: a fault names an
\* operation and, for send, the message type
Throws(o, fault) ==
  \/ fault = o.op
  \/ o.op = "send" /\ fault = "send:" \o o.val.type

\* run the operations under the fault: an operation that throws inside a
\* local try is logged there and the run goes on; the first one that
\* throws in the try of onXRFrame ends the run in its catch,
\*   catch (err) { logError("XR frame error", err); }
Run(ops, fault) ==
  LET fatal == {i \in DOMAIN ops : Throws(ops[i], fault) /\ ops[i].catch = "frame"}
      last == IF fatal = {} THEN Len(ops)
              ELSE CHOOSE i \in fatal : \A j \in fatal : i <= j
  IN  [i \in 1 .. last |->
         IF ~Throws(ops[i], fault) THEN ops[i]
         ELSE IF ops[i].catch = "local"
         THEN Op("caught", ops[i].eye, [t |-> ops[i].op], "local")
         ELSE Op("logError", ops[i].eye, [t |-> ops[i].op], "frame")]

Count(log, op) == Cardinality({i \in DOMAIN log : log[i].op = op})

\* a variant of onXRFrame that recomputes the left offset in every frame
\* that has a pose
OnXRFrameRecomputing(s, in, fault) ==
  /\ rafPending[s] > 0
  /\ frameLog' = Run(FrameOps(in),
                     IF xrRefSpace # s THEN "getViewerPose" ELSE fault)
  /\ rafPending' =
       [rafPending EXCEPT
          ![s] = @ - 1 + Count(frameLog', "requestAnimationFrame")]
  /\ hasLoggedLeftVideo' =
       (hasLoggedLeftVideo \/
        \E i \in DOMAIN frameLog' :
          frameLog'[i].op = "setStatus" /\ frameLog'[i].eye = "left")
  /\ hasLoggedRightVideo' =
       (hasLoggedRightVideo \/
        \E i \in DOMAIN frameLog' :
          frameLog'[i].op = "setStatus" /\ frameLog'[i].eye = "right")
  /\ texOffsetLeft' = IF in.pose = Null THEN texOffsetLeft ELSE ZeroOffset
  /\ UNCHANGED <<navigatorXR, at, startLog, rtcVars, srcObject, calib,
                 texOffsetRight, offsetCall, projLeft, projRight, glVars,
                 xrSession, xrLayer, xrRefSpace, controllerCall>>

\* one run of onXRFrame(time, frame) for a frame of session s
OnXRFrame(s, in, fault) ==
  /\ rafPending[s] > 0
     \* getViewerPose throws for a reference space of another session
  /\ frameLog' = Run(FrameOps(in),
                     IF xrRefSpace # s THEN "getViewerPose" ELSE fault)
  /\ rafPending' =
       [rafPending EXCEPT
          ![s] = @ - 1 + Count(frameLog', "requestAnimationFrame")]
  /\ hasLoggedLeftVideo' =
       (hasLoggedLeftVideo \/
        \E i \in DOMAIN frameLog' :
          frameLog'[i].op = "setStatus" /\ frameLog'[i].eye = "left")
  /\ hasLoggedRightVideo' =
       (hasLoggedRightVideo \/
        \E i \in DOMAIN frameLog' :
          frameLog'[i].op = "setStatus" /\ frameLog'[i].eye = "right")
  /\ UNCHANGED <<navigatorXR, at, startLog, rtcVars, srcObject, calibVars,
                 glVars, xrSession, xrLayer, xrRefSpace, controllerCall>>

(***************************************************************************)
(* The environment's inputs to a frame.                                    *)
(***************************************************************************)
Vec3(x, y, z) == [x |-> x, y |-> y, z |-> z]
Quat(x, y, z, w) == [x |-> x, y |-> y, z |-> z, w |-> w]
ViewerPose(p, q) == [t |-> "XRViewerPose", position |-> p, orientation |-> q]

PoseA == ViewerPose(Vec3(0, 16, 0), Quat(0, 0, 0, 1))
PoseB == ViewerPose(Vec3(1, 15, -2), Quat(0, 1, 0, 0))
Poses == {PoseA, PoseB}

Eyes == {"left", "right"}
ViewLists == UNION {[1 .. n -> Eyes] : n \in 0 .. MaxViews}
Stereo == <<"left", "right">>

NoSources == <<>>
TwoHands ==
  <<InputSource("left", Gamepad(<<0, 0, 3, -5>>, <<TRUE, FALSE>>)),
    InputSource("right", Gamepad(<<0, 0, -2, 7>>,
                                 <<FALSE, TRUE, FALSE, FALSE, TRUE, FALSE>>))>>
InputSourceLists == {NoSources}

Clock == {1000}

NotReady == [left |-> FALSE, right |-> FALSE]

\* the operations that may throw in the model
Faults == {"none", "getViewerPose", "send:pose", "inputSources",
           "send:controller", "texImage2D", "drawArrays"}

\* Inputs a run of onXRFrame never reads are fixed, so that one run is one
\* transition: the views and the videos without a pose or a sampler, the
\* video of an eye no view shows, the pose value and the controllers while
\* the channel is not open.  A video is decodable only with a stream attached.
ObservedPoses(ps) ==
  IF ChannelIsOpen THEN ps ELSE ps \cap {Null, PoseA}

ObservedViews(pose, vs) ==
  IF pose = Null \/ ~samplerLoc THEN {<<>>} ELSE vs

ObservedReady(views, rs) ==
  {r \in rs : \A eye \in Eyes :
     r[eye] => /\ \E i \in DOMAIN views : views[i] = eye
               /\ srcObject[eye] # NoTrack}

ObservedSources(pose, srcs) ==
  IF pose = Null \/ ~ChannelIsOpen THEN {NoSources} ELSE srcs

(***************************************************************************)
(* Specifications.  Each one is the program under an environment: the      *)
(* inputs the outside world feeds the handlers.                            *)
(*   Spec       start-up under every response of the signaling and the     *)
(*              calibration endpoint, with stereo frames;                  *)
(*   SpecFrame  every frame (poses, views, videos, channel states,         *)
(*              faults) after a start-up whose responses are well-formed;  *)
(*   SpecTracks every order of track events on the connections.            *)
(***************************************************************************)
Terminal == {"idle", "returned", "failed", "rejected", "done"}

\* when the user clicks enter-vr: "any" time, or "retry": again only after
\* every earlier start has failed
MayClick(e, clicks) ==
  \/ clicks = "any"
  \/ clicks = "retry" /\ \A f \in Enters : f < e => at[f] \in {"failed", "rejected"}

\* the steps of startXR
StartUp(env) ==
  \/ \E e \in Enters : MayClick(e, env.clicks) /\ Click(e)
  \/ \E e \in Enters : OfferCreated(e)
  \/ \E e \in Enters, ok \in BOOLEAN : LocalDescriptionSet(e, ok)
  \/ \E e \in Enters, r \in env.signaling, neterr \in env.neterr :
       OfferResponse(e, r, neterr)
  \/ \E e \in Enters, ok \in BOOLEAN : RemoteDescriptionSet(e, ok)
  \/ \E e \in Enters, r \in env.calib, g \in env.gl : CalibResponse(e, r, g)
  \/ \E e \in Enters, ok \in env.session : SessionGranted(e, ok)
  \/ \E e \in Enters : CompatibleMade(e)
  \/ \E e \in Enters : ReferenceSpaceGot(e)

Tracks(env) ==
  \E c \in Enters, ev \in env.tracks : OnTrack(c, ev)

ChannelEvents ==
  \/ \E c \in Enters : ChannelOpen(c)
  \/ \E c \in Enters : ChannelClosing(c)
  \/ \E c \in Enters : ChannelClosed(c)

Frames(env) ==
  \E s \in {x \in Enters : rafPending[x] > 0} :
  \E pose \in ObservedPoses(env.poses) :
  \E views \in ObservedViews(pose, env.views) :
  \E ready \in ObservedReady(views, env.ready) :
  \E sources \in ObservedSources(pose, env.sources) :
  \E now \in Clock, f \in env.faults :
    OnXRFrame(s, [pose |-> pose, views |-> views, ready |-> ready,
                  inputSources |-> sources, now |-> now], f)

\* res.ok false: the body is not read
CalibResponsesRead ==
  {r \in CalibResponses : ~r.ok => r.body = NotJson}

StartupEnv ==
  [clicks |-> "any",
   signaling |-> SignalingResponses, neterr |-> BOOLEAN,
   calib |-> CalibResponsesRead, gl |-> GLOutcomes, session |-> BOOLEAN,
   poses |-> {PoseA, Null}, views |-> {Stereo}, ready |-> {NotReady},
   sources |-> {NoSources}, faults |-> {"none"}]

FrameEnv ==
  [clicks |-> "retry",
   signaling |-> {[status |-> 200, body |-> "answer"]}, neterr |-> {FALSE},
   tracks |-> {[kind |-> "video", transceiver |-> TRUE, mid |-> NullMid]},
   calib |-> {[ok |-> TRUE,
               body |-> Payload(KCentred, KOffCentre, JNum(75, 1000))]},
   gl |-> {"ok", "compileFail"}, session |-> {TRUE},
   poses |-> Poses \cup {Null}, views |-> ViewLists,
   ready |-> [left : BOOLEAN, right : BOOLEAN],
   sources |-> InputSourceLists, faults |-> Faults]

Next == StartUp(StartupEnv) \/ Frames(StartupEnv)
Spec == Init /\ [][Next]_vars

TrackEnv ==
  [clicks |-> "retry",
   signaling |-> {[status |-> 200, body |-> "answer"]}, neterr |-> {FALSE},
   tracks |-> TrackEvents,
   calib |-> {[ok |-> TRUE,
               body |-> Payload(KCentred, KOffCentre, JNum(75, 1000))],
              [ok |-> FALSE, body |-> NotJson]},
   gl |-> {"ok"}, session |-> {TRUE}]

NextFrame ==
  StartUp(FrameEnv) \/ Tracks(FrameEnv) \/ ChannelEvents \/ Frames(FrameEnv)
SpecFrame == Init /\ [][NextFrame]_vars

NextTracks == StartUp(TrackEnv) \/ Tracks(TrackEnv)
SpecTracks == Init /\ [][NextTracks]_vars

(***************************************************************************)
(* perEyeTexOffset on its own: the function is global and pure, and the    *)
(* statements about it range over its arguments.  SpecOffset draws the     *)
(* arguments of one call for each eye and applies the function.            *)
(***************************************************************************)
OffsetMatrices == {KCentred, KOffCentre, Matrix(805, 655, 351)}
OffsetWidths == {Q(1280, 1), Q(640, 1)}
OffsetHeights == {Q(720, 1), Q(480, 1)}
OffsetBaselines == {JNum(75, 1000), JNum(130, 1000)}
OffsetConvergences == {Q(6, 10), Q(12, 10), Q(24, 10)}

OffsetCalls ==
  [t : {"call"}, K : OffsetMatrices, width : OffsetWidths,
   height : OffsetHeights, baseline_m : OffsetBaselines,
   convergence_m : OffsetConvergences, left : {Null}, right : {Null}]

InitOffset ==
  /\ offsetCall \in OffsetCalls
  /\ navigatorXR = TRUE
  /\ at = [e \in Enters |-> "idle"]
  /\ startLog = [e \in Enters |-> <<>>]
  /\ pc = 0
  /\ dataChannel = 0
  /\ peers = [e \in Enters |-> NoPeer]
  /\ channels = [e \in Enters |-> NoChannel]
  /\ srcObject = [left |-> NoTrack, right |-> NoTrack]
  /\ calib = Null
  /\ texOffsetLeft = Null
  /\ texOffsetRight = Null
  /\ gl = FALSE
  /\ program = "null"
  /\ uTexOffsetLoc = FALSE
  /\ samplerLoc = FALSE
  /\ xrSession = 0
  /\ xrLayer = 0
  /\ xrRefSpace = 0
  /\ rafPending = [e \in Enters |-> 0]
  /\ hasLoggedLeftVideo = FALSE
  /\ hasLoggedRightVideo = FALSE
  /\ frameLog = <<>>
  /\ projLeft = Null
  /\ projRight = Null
  /\ uProjectionLoc = FALSE
  /\ controllerCall = NoCall

\* perEyeTexOffset(K, width, height, baseline_m, convergence_m, eye)
CallPerEyeTexOffset(eye) ==
  /\ offsetCall # NoCall
  /\ offsetCall[eye] = Null
  /\ offsetCall' =
       [offsetCall EXCEPT
          ![eye] = perEyeTexOffset(offsetCall.K, offsetCall.width,
                                   offsetCall.height, offsetCall.baseline_m,
                                   offsetCall.convergence_m, eye)]
  /\ UNCHANGED <<navigatorXR, at, startLog, rtcVars, srcObject, calib,
                 texOffsetLeft, texOffsetRight, projLeft, projRight, glVars,
                 xrVars, frameVars>>

NextOffset == \E eye \in Eyes : CallPerEyeTexOffset(eye)
SpecOffset == InitOffset /\ [][NextOffset]_vars

(***************************************************************************)
(* The controller message on its own: what sendControllerData builds once  *)
(* its channel test has passed depends on its argument and the clock and   *)
(* on nothing else of the program.  SpecController draws a list of input   *)
(* sources and builds the message from it at up to MaxMessages times.      *)
(***************************************************************************)
MaxSources == 2
MaxMessages == 2

Hands == {"left", "right", "none"}
ControllerAxes == {<<1, 2, 3>>, <<0, 0, 3, -5>>, <<4, 4, -2, 7>>}
ControllerButtons ==
  {<<>>, <<TRUE, FALSE>>,
   <<FALSE, TRUE, FALSE, FALSE, TRUE, FALSE>>,
   <<TRUE, TRUE, FALSE, FALSE, FALSE, TRUE>>}

\* XRInputSource objects: a hand, and a gamepad or none
ControllerSources ==
  {InputSource(hand, NoGamepad) : hand \in Hands} \cup
  {InputSource(hand, Gamepad(axes, btns)) :
     hand \in Hands, axes \in ControllerAxes, btns \in ControllerButtons}

ControllerSourceLists ==
  UNION {[1 .. n -> ControllerSources] : n \in 0 .. MaxSources}

ControllerClock == {1000, 1016}

ControllerCalls ==
  [t : {"call"}, inputSources : ControllerSourceLists, messages : {<<>>}]

InitController ==
  /\ controllerCall \in ControllerCalls
  /\ offsetCall = NoCall
  /\ navigatorXR = TRUE
  /\ at = [e \in Enters |-> "idle"]
  /\ startLog = [e \in Enters |-> <<>>]
  /\ pc = 0
  /\ dataChannel = 0
  /\ peers = [e \in Enters |-> NoPeer]
  /\ channels = [e \in Enters |-> NoChannel]
  /\ srcObject = [left |-> NoTrack, right |-> NoTrack]
  /\ calib = Null
  /\ texOffsetLeft = Null
  /\ texOffsetRight = Null
  /\ gl = FALSE
  /\ program = "null"
  /\ uTexOffsetLoc = FALSE
  /\ samplerLoc = FALSE
  /\ xrSession = 0
  /\ xrLayer = 0
  /\ xrRefSpace = 0
  /\ rafPending = [e \in Enters |-> 0]
  /\ hasLoggedLeftVideo = FALSE
  /\ hasLoggedRightVideo = FALSE
  /\ frameLog = <<>>
  /\ projLeft = Null
  /\ projRight = Null
  /\ uProjectionLoc = FALSE

\* lines 13-46 of sendControllerData(inputSources), Date.now() being now
BuildControllerMessage(now) ==
  /\ controllerCall # NoCall
  /\ Len(controllerCall.messages) < MaxMessages
  /\ controllerCall' =
       [controllerCall EXCEPT
          !.messages =
             Append(@, ControllerMessage(controllerCall.inputSources, now))]
  /\ UNCHANGED <<navigatorXR, at, startLog, rtcVars, srcObject, calibVars,
                 glVars, xrVars, hasLoggedLeftVideo, hasLoggedRightVideo,
                 frameLog>>

NextController == \E now \in ControllerClock : BuildControllerMessage(now)
SpecController == InitController /\ [][NextController]_vars

(***************************************************************************)
(* src/static/index.js, the client without telemetry.  Its startWebRTC     *)
(* creates no data channel, its startXR stores two shift matrices          *)
(* (principalPointShift) in projLeft and projRight, and its onXRFrame      *)
(* sends nothing and sets the matrix of a view as the uniform uProjection. *)
(* The negotiation after createOffer, ontrack, loadCalibration, the steps  *)
(* of startXR after requestSession and updateTextureFromVideo are the same *)
(* statements in both files, and SpecStatic takes their actions as they    *)
(* are.                                                                    *)
(***************************************************************************)
\* principalPointShift(K, width, height): the 16 numbers of the
\* Float32Array in column-major order, or the TypeError of a property read
principalPointShift(K, width, height) ==
  LET r0 == Index(K, 0)
      cx == Index(r0, 2)
      r1 == Index(K, 1)
      cy == Index(r1, 2)
  IN  IF TypeError \in {r0, cx, r1, cy} THEN TypeError
      ELSE
        LET dx == QDiv(QSub(ToNumber(cx), QDiv(width, Q(2, 1))),
                       QDiv(width, Q(2, 1)))
            dy == QDiv(QSub(ToNumber(cy), QDiv(height, Q(2, 1))),
                       QDiv(height, Q(2, 1)))
        IN  [t |-> "Float32Array",
             m |-> <<Q(1, 1), Q(0, 1), Q(0, 1), Q(0, 1),
                     Q(0, 1), Q(1, 1), Q(0, 1), Q(0, 1),
                     Q(0, 1), Q(0, 1), Q(1, 1), Q(0, 1),
                     Fround(QNeg(dx)), Fround(dy), Q(0, 1), Q(1, 1)>>]

\* click on enter-vr: startXR runs into startWebRTC up to
\* `await pc.createOffer()`
StaticClick(e) ==
  /\ at[e] = "idle"
  /\ \A f \in Enters : f < e => at[f] # "idle"
  /\ IF ~navigatorXR
     THEN /\ at' = [at EXCEPT ![e] = "returned"]
          /\ Log(e, <<SEv("logError", 0, "WebXR not supported", JUndef)>>)
          /\ UNCHANGED <<pc, peers>>
     ELSE /\ pc' = e
          /\ peers' = [peers EXCEPT ![e] = NewPeer]
          /\ at' = [at EXCEPT ![e] = "createOffer"]
          /\ Log(e, <<SEv("createOffer", e, "", JUndef)>>)
  /\ UNCHANGED <<navigatorXR, dataChannel, channels, srcObject, calibVars,
                 glVars, xrVars, frameVars>>

\* startXR after loadCalibration returned, up to `await requestSession`:
\* the state it leaves, as a record
StaticStartXRTail(c, glOutcome) ==
  LET needInit == ~gl
      initOk == ~needInit \/ glOutcome = "ok"
      left == principalPointShift(Field(c, "k_left"), Q(WIDTH, 1), Q(HEIGHT, 1))
      right == principalPointShift(Field(c, "k_right"), Q(WIDTH, 1),
                                   Q(HEIGHT, 1))
      glAfter == IF needInit
                 THEN [gl |-> glOutcome # "noContext",
                       program |-> CASE glOutcome = "ok" -> "linked"
                                     [] glOutcome = "linkFail" -> "unlinked"
                                     [] OTHER -> "null",
                       uProjectionLoc |-> glOutcome = "ok",
                       samplerLoc |-> glOutcome = "ok"]
                 ELSE [gl |-> gl, program |-> program,
                       uProjectionLoc |-> uProjectionLoc,
                       samplerLoc |-> samplerLoc]
      calledInit == IF needInit
                    THEN <<SEv("initGLResources", 0, glOutcome, JUndef)>>
                    ELSE <<>>
      base == [gl |-> glAfter, left |-> projLeft, right |-> projRight]
  IN  IF ~initOk
      THEN base @@ [at |-> "failed",
                    log |-> calledInit \o
                            <<SEv("logError", 0, "WebGL init failed", JUndef)>>]
      ELSE IF left = TypeError
      THEN base @@ [at |-> "rejected",
                    log |-> calledInit \o
                            <<SEv("principalPointShift", 0, "left", left)>>]
      ELSE IF right = TypeError
      THEN [base EXCEPT !.left = left] @@
           [at |-> "rejected",
            log |-> calledInit \o
                    <<SEv("principalPointShift", 0, "left", left),
                      SEv("principalPointShift", 0, "right", right)>>]
      ELSE [base EXCEPT !.left = left, !.right = right] @@
           [at |-> "requestSession",
            log |-> calledInit \o
                    <<SEv("principalPointShift", 0, "left", left),
                      SEv("principalPointShift", 0, "right", right),
                      SEv("requestSession", 0, "immersive-vr", JUndef)>>]

\* fetch("/calibration") resolved: the rest of loadCalibration and, when
\* it returns, startXR up to `await navigator.xr.requestSession(...)`
StaticCalibResponse(e, res, glOutcome) ==
  /\ at[e] = "fetchCalibration"
  /\ LET r == loadCalibration(res)
         got == SEv("calibration", IF res.ok THEN 200 ELSE 500, r.result,
                    res.body)
     IN  /\ calib' = IF r.assigned THEN res.body ELSE calib
         /\ IF r.result = "throw"
            THEN /\ at' = [at EXCEPT ![e] = "failed"]
                 /\ Log(e, <<got,
                             SEv("logError", 0, "Failed to load calibration",
                                 JUndef),
                             SEv("logError", 0, "Startup failed", JUndef)>>)
                 /\ UNCHANGED <<projLeft, projRight, gl, program,
                                uProjectionLoc, samplerLoc>>
            ELSE \E t \in {StaticStartXRTail(res.body, glOutcome)} :
                     /\ at' = [at EXCEPT ![e] = t.at]
                     /\ Log(e, <<got>> \o t.log)
                     /\ projLeft' = t.left
                     /\ projRight' = t.right
                     /\ gl' = t.gl.gl
                     /\ program' = t.gl.program
                     /\ uProjectionLoc' = t.gl.uProjectionLoc
                     /\ samplerLoc' = t.gl.samplerLoc
  /\ UNCHANGED <<navigatorXR, rtcVars, srcObject, texOffsetLeft,
                 texOffsetRight, offsetCall, uTexOffsetLoc, xrVars, frameVars>>

\* the body of `for (let i = 0; i < views.length; i++)` from view i on:
\* `i === 0` picks the texture, the video and the matrix
RECURSIVE StaticViewOps(_, _, _, _, _)
StaticViewOps(views, i, ready, hl, hr) ==
  IF i > Len(views) THEN <<>>
  ELSE LET view == views[i]
           tex == IF i = 1 THEN "left" ELSE "right"
           proj == IF i = 1 THEN projLeft ELSE projRight
           stalled == ~ready[tex]
       IN  <<Op("viewport", view, NoVal, "frame")>> \o
           UpdateTextureOps(tex, ready[tex], hl, hr) \o
           <<Op("bindTexture", tex, NoVal, "frame")>> \o
           (IF samplerLoc THEN <<Op("uniform1i", tex, NoVal, "frame")>>
            ELSE <<>>) \o
           (IF uProjectionLoc /\ proj.t # "null"
            THEN <<Op("uniformMatrix4fv", tex, proj, "frame")>>
            ELSE <<>>) \o
           <<Op("drawArrays", view, NoVal, "frame")>> \o
           StaticViewOps(views, i + 1, ready,
                         hl \/ (stalled /\ tex = "left"),
                         hr \/ (stalled /\ tex = "right"))

\* the operations the try block of onXRFrame performs, in order, when
\* nothing throws
StaticFrameOps(in) ==
  <<Op("getViewerPose", "", in.pose, "frame")>> \o
  IF in.pose.t = "null"
  THEN <<Op("requestAnimationFrame", "", NoVal, "frame")>>
  ELSE IF ~samplerLoc
  THEN <<Op("setStatus", "", [t |-> "Waiting for GL sampler"], "frame"),
         Op("requestAnimationFrame", "", NoVal, "frame")>>
  ELSE <<Op("bindFramebuffer", "", NoVal, "frame"),
         Op("clear", "", NoVal, "frame"),
         Op("useProgram", "", NoVal, "frame"),
         Op("pose.views", "", [t |-> "views", eyes |-> in.views], "frame")>> \o
       StaticViewOps(in.views, 1, in.ready, hasLoggedLeftVideo,
                     hasLoggedRightVideo) \o
       <<Op("requestAnimationFrame", "", NoVal, "frame")>>

\* one run of onXRFrame for session s
StaticOnXRFrame(s, in, fault) ==
  /\ rafPending[s] > 0
  /\ frameLog' = Run(StaticFrameOps(in),
                     IF xrRefSpace # s THEN "getViewerPose" ELSE fault)
  /\ rafPending' =
       [rafPending EXCEPT
          ![s] = @ - 1 + Count(frameLog', "requestAnimationFrame")]
  /\ hasLoggedLeftVideo' =
       (hasLoggedLeftVideo \/
        \E i \in DOMAIN frameLog' :
          frameLog'[i].op = "setStatus" /\ frameLog'[i].eye = "left")
  /\ hasLoggedRightVideo' =
       (hasLoggedRightVideo \/
        \E i \in DOMAIN frameLog' :
          frameLog'[i].op = "setStatus" /\ frameLog'[i].eye = "right")
  /\ UNCHANGED <<navigatorXR, at, startLog, rtcVars, srcObject, calibVars,
                 glVars, xrSession, xrLayer, xrRefSpace, controllerCall>>

\* the videos a run reads are those of the first view (left) and of the
\* later ones (right); the other readiness is fixed.  A video is decodable
\* only with a stream attached.
StaticObservedReady(views, rs) ==
  {r \in rs :
     /\ r.left => Len(views) >= 1 /\ srcObject.left # NoTrack
     /\ r.right => Len(views) >= 2 /\ srcObject.right # NoTrack}

StaticStartUp(env) ==
  \/ \E e \in Enters : MayClick(e, env.clicks) /\ StaticClick(e)
  \/ \E e \in Enters : OfferCreated(e)
  \/ \E e \in Enters, ok \in BOOLEAN : LocalDescriptionSet(e, ok)
  \/ \E e \in Enters, r \in env.signaling, neterr \in env.neterr :
       OfferResponse(e, r, neterr)
  \/ \E e \in Enters, ok \in BOOLEAN : RemoteDescriptionSet(e, ok)
  \/ \E e \in Enters, r \in env.calib, g \in env.gl :
       StaticCalibResponse(e, r, g)
  \/ \E e \in Enters, ok \in env.session : SessionGranted(e, ok)
  \/ \E e \in Enters : CompatibleMade(e)
  \/ \E e \in Enters : ReferenceSpaceGot(e)

StaticFrames(env) ==
  \E s \in {x \in Enters : rafPending[x] > 0} :
  \E pose \in env.poses :
  \E views \in ObservedViews(pose, env.views) :
  \E ready \in StaticObservedReady(views, env.ready) :
  \E f \in env.faults :
    StaticOnXRFrame(s, [pose |-> pose, views |-> views, ready |-> ready], f)

StaticEnv ==
  [clicks |-> "retry",
   signaling |-> {[status |-> 200, body |-> "answer"]}, neterr |-> {FALSE},
   tracks |-> {[kind |-> "video", transceiver |-> TRUE, mid |-> NullMid]},
   calib |-> {[ok |-> TRUE,
               body |-> Payload(KCentred, KOffCentre, JNum(75, 1000))]},
   gl |-> {"ok", "compileFail"}, session |-> {TRUE},
   poses |-> {PoseA, Null}, views |-> ViewLists,
   ready |-> [left : BOOLEAN, right : BOOLEAN],
   faults |-> {"none", "getViewerPose", "texImage2D", "drawArrays"}]

NextStatic ==
  StaticStartUp(StaticEnv) \/ Tracks(StaticEnv) \/ StaticFrames(StaticEnv)
SpecStatic == Init /\ [][NextStatic]_vars

(***************************************************************************)
(* Properties of onXRFrame, checked under SpecFrame.  frameLog is the run  *)
(* of the last frame.                                                      *)
(***************************************************************************)
\* the operation of the log entry was thrown by: an entry "logError" is the
\* catch of onXRFrame, an entry "caught" a try around the operation
ThrownAt(log, i) == log[i].op \in {"logError", "caught"}
SendThrown(log, i) == ThrownAt(log, i) /\ log[i].val.t = "send"

\* C1: in every run of onXRFrame in which a step raised an exception that
\* reached the catch of onXRFrame, the exception is logged and the next
\* frame is still requested, so the loop goes on.
C1_FrameErrorKeepsLoop ==
  \A i \in DOMAIN frameLog :
    frameLog[i].op = "logError" =>
      Count(frameLog, "requestAnimationFrame") >= 1

\* C2: a run of onXRFrame that raises no exception takes one of the three
\* paths (no viewer pose, sampler location not initialised, frame drawn)
\* and requests the next frame exactly once, as its last step.
C2_NoException(log) ==
  log # <<>> /\ \A i \in DOMAIN log : ~ThrownAt(log, i)

C2_PathNoPose(log) == log[1].val = Null /\ Len(log) = 2
C2_PathNoSampler(log) ==
  \E i \in DOMAIN log : log[i].val = [t |-> "Waiting for GL sampler"]
C2_PathDrawn(log) == \E i \in DOMAIN log : log[i].op = "useProgram"

C2_OneRequestPerFrame ==
  C2_NoException(frameLog) =>
    /\ Count(frameLog, "requestAnimationFrame") = 1
    /\ frameLog[Len(frameLog)].op = "requestAnimationFrame"
    /\ \/ C2_PathNoPose(frameLog)
       \/ C2_PathNoSampler(frameLog)
       \/ C2_PathDrawn(frameLog)

\* C2 witness: a run without exception on the path where the sampler
\* location is not initialised, the next frame requested once
C2_SamplerPathTaken ==
  /\ C2_NoException(frameLog)
  /\ C2_PathNoSampler(frameLog)
  /\ ~C2_PathDrawn(frameLog)
  /\ Count(frameLog, "requestAnimationFrame") = 1

\* C3: when dataChannel.send throws for the pose message or for the
\* controller message, the failure is logged and the same run of onXRFrame
\* still goes on to draw (when the sampler is there) and to request the
\* next frame.
C3_SendFailureNonFatal ==
  \A i \in DOMAIN frameLog :
    SendThrown(frameLog, i) =>
      /\ Count(frameLog, "requestAnimationFrame") = 1
      /\ samplerLoc => C2_PathDrawn(frameLog)

\* C4: in a frame that finds the channel variable null or the channel's
\* readyState other than "open", no send is invoked and no send raises;
\* and nothing is kept for a later frame: a frame sends at most one pose
\* message and one controller message, and the pose it sends is its own.
C4_ChannelNotOpen(log) ==
  \E i \in DOMAIN log :
    /\ log[i].op = "dataChannel.readyState"
    /\ log[i].val.ref = 0 \/ log[i].val.readyState # "open"

C4_Sends(log, type) ==
  {i \in DOMAIN log : log[i].op = "send" /\ log[i].val.type = type}

C4_NoSendWhenNotOpen ==
  /\ C4_ChannelNotOpen(frameLog) =>
       \A i \in DOMAIN frameLog :
         frameLog[i].op # "send" /\ ~SendThrown(frameLog, i)
  /\ Cardinality(C4_Sends(frameLog, "pose")) <= 1
  /\ Cardinality(C4_Sends(frameLog, "controller")) <= 1
  /\ \A i \in C4_Sends(frameLog, "pose") :
       frameLog[i].val = PoseMessage(frameLog[1].val)

\* C4 witness: a frame with a pose, run after the channel was closed
\* (dataChannel is null), that went on to request the next frame
C4_FrameAfterClose ==
  /\ \E c \in Enters : channels[c].readyState = "closed"
  /\ \E i \in DOMAIN frameLog :
       /\ frameLog[i].op = "dataChannel.readyState"
       /\ frameLog[i].val.ref = 0
  /\ C2_PathDrawn(frameLog)
  /\ Count(frameLog, "requestAnimationFrame") = 1

(***************************************************************************)
(* Properties of startXR, checked under Spec.  startLog[e] is what the     *)
(* startXR of click e did and received.                                    *)
(***************************************************************************)
Did(e, op) == {i \in DOMAIN startLog[e] : startLog[e][i].op = op}

\* a payload with baseline_m missing, or with a k_left that is no object
C5_Malformed(p) ==
  /\ p.t = "object"
  /\ \/ Field(p, "baseline_m") = JUndef
     \/ Field(p, "k_left").t \notin {"array", "object"}

\* C5: loadCalibration throws on every payload in which baseline_m is
\* missing or k_left is not an object, and the startXR that received such
\* a payload never calls perEyeTexOffset.
C5_MalformedRejected ==
  \A e \in Enters : \A i \in Did(e, "calibration") :
    C5_Malformed(startLog[e][i].val) =>
      /\ startLog[e][i].arg = "throw"
      /\ Did(e, "perEyeTexOffset") = {}

\* both matrices present and baseline_m a number strictly greater than 0
C6_Valid(p) ==
  /\ p.t = "object"
  /\ Field(p, "k_left") \notin {JUndef, JNull}
  /\ Field(p, "k_right") \notin {JUndef, JNull}
  /\ Field(p, "baseline_m").t = "number"
  /\ ~IsNaN(Field(p, "baseline_m").q)
  /\ Field(p, "baseline_m").q.n > 0

\* C6: every payload loadCalibration returns (accepts) has both intrinsic
\* matrices and a baseline_m that is a number strictly greater than zero.
C6_AcceptedProfileValid ==
  \A e \in Enters : \A i \in Did(e, "calibration") :
    startLog[e][i].arg = "ok" => C6_Valid(startLog[e][i].val)

\* the offsets perEyeTexOffset yields for the payloads that pass the
\* validation of loadCalibration
C7_ValidatedLeft ==
  {perEyeTexOffset(Field(p, "k_left"), Q(WIDTH, 1), Q(HEIGHT, 1),
                   Field(p, "baseline_m"), CONVERGENCE_M, "left") :
     p \in {q \in CalibPayloads : CalibAccepted(q)}} \ {TypeError}

C7_ValidatedRight ==
  {perEyeTexOffset(Field(p, "k_right"), Q(WIDTH, 1), Q(HEIGHT, 1),
                   Field(p, "baseline_m"), CONVERGENCE_M, "right") :
     p \in {q \in CalibPayloads : CalibAccepted(q)}} \ {TypeError}

\* C7: in every frame, each eye drawn has had its offset set, to a value
\* perEyeTexOffset computed for that eye from a payload that passed the
\* validation; the default new Float32Array([0, 0]) is never used.
C7_DrawnWithValidatedOffset ==
  \A i \in DOMAIN frameLog :
    /\ frameLog[i].op # "new Float32Array"
    /\ frameLog[i].op = "uniform2fv" =>
         frameLog[i].val \in (IF frameLog[i].eye = "left"
                              THEN C7_ValidatedLeft ELSE C7_ValidatedRight)
    /\ frameLog[i].op = "drawArrays" =>
         i > 1 /\ frameLog[i - 1].op = "uniform2fv"
               /\ frameLog[i - 1].eye = frameLog[i].eye

\* C7 witness: a frame drew both eyes while a second enter has had its
\* payload rejected (the rejected payload is what calib holds)
C7_DrawnBesideRejectedPayload ==
  /\ \E e \in Enters : \E i \in Did(e, "calibration") :
       /\ e > 1
       /\ startLog[e][i].arg = "throw"
       /\ startLog[e][i].val \in CalibPayloads
       /\ calib = startLog[e][i].val
  /\ \A eye \in Eyes : \E i \in DOMAIN frameLog :
       frameLog[i].op = "drawArrays" /\ frameLog[i].eye = eye

\* C8: when the signaling response carries an error payload or a
\* non-success HTTP status, startWebRTC fails without calling
\* setRemoteDescription and startXR aborts before requesting calibration.
C8_ErrorResponseAborts ==
  \A e \in Enters : \A i \in Did(e, "response") :
    (startLog[e][i].arg = "error" \/ startLog[e][i].on = 500) =>
      /\ Did(e, "setRemoteDescription") = {}
      /\ \A j \in Did(e, "fetch") : startLog[e][j].arg # "/calibration"
      /\ at[e] = "failed"

\* C9: every data channel startWebRTC creates is configured unordered and
\* with maxRetransmits 0.
C9_ChannelUnorderedNoRetransmit ==
  \A c \in Enters :
    channels[c].created =>
      ~channels[c].ordered /\ channels[c].maxRetransmits = 0

(***************************************************************************)
(* Properties of pc.ontrack, checked under SpecTracks.                     *)
(***************************************************************************)
\* the element the n-th track event of a connection is to be bound to:
\* by its mid when it has one, else by arrival order among the video tracks
C10_Expected(events, n) ==
  LET earlier == Cardinality({k \in 1 .. n - 1 : events[k].kind = "video"})
  IN  IF events[n].transceiver /\ events[n].mid # NullMid
      THEN (IF events[n].mid = "0" THEN "left" ELSE "right")
      ELSE (CASE earlier = 0 -> "left"
              [] earlier = 1 -> "right"
              [] OTHER -> "unspecified")

\* C10: a video track with a mid is bound to left when the mid is "0" and
\* to right otherwise; without a mid the first video track of a connection
\* is bound to left and the second to right.  What an element shows is a
\* function of the events delivered: the last track bound to it.
C10_TracksBoundByMidOrArrival ==
  \A el \in Eyes :
    /\ srcObject[el] # NoTrack =>
         LET c == srcObject[el].pc
             n == srcObject[el].n
         IN  /\ n <= Len(peers[c].tracks)
             /\ peers[c].tracks[n].kind = "video"
             /\ C10_Expected(peers[c].tracks, n) \in {el, "unspecified"}
    /\ \A c \in Enters : \A n \in DOMAIN peers[c].tracks :
         (peers[c].tracks[n].kind = "video"
            /\ C10_Expected(peers[c].tracks, n) = el) =>
           /\ srcObject[el] # NoTrack
           /\ srcObject[el].pc = c => srcObject[el].n >= n

\* C10 witness: two video tracks without a mid arrived on a connection;
\* the first is shown left and the second right
C10_TwoTracksWithoutMid ==
  \E c \in Enters :
    /\ Len(peers[c].tracks) >= 2
    /\ \A n \in 1 .. 2 : /\ peers[c].tracks[n].kind = "video"
                         /\ peers[c].tracks[n].mid = NullMid
    /\ srcObject["left"] = [pc |-> c, n |-> 1]
    /\ srcObject["right"] = [pc |-> c, n |-> 2]

\* the video tracks connection c has delivered
VideoTracks(c) ==
  {n \in DOMAIN peers[c].tracks : peers[c].tracks[n].kind = "video"}

\* C11: once two video tracks of a connection have arrived, whatever their
\* mids and their order, the left and the right element are each bound,
\* and to different tracks.
C11_BothEyesBound ==
  \A c \in Enters :
    Cardinality(VideoTracks(c)) >= 2 =>
      /\ srcObject["left"] # NoTrack
      /\ srcObject["right"] # NoTrack
      /\ srcObject["left"] # srcObject["right"]

\* C12: a frame callback is pending on a session only while the shader
\* program is compiled and linked: an enter whose initGLResources failed
\* schedules none, and neither does any later enter.
C12_FrameOnlyWithLinkedProgram ==
  \A s \in Enters : rafPending[s] > 0 => program = "linked"

\* the last run of onXRFrame got no viewer pose
C13_NullPose ==
  /\ frameLog # <<>>
  /\ frameLog[1].op = "getViewerPose"
  /\ frameLog[1].val = Null

\* C13: a frame whose viewer pose is unavailable requests the next frame
\* and returns: it clears nothing, uploads no texture, draws nothing and
\* raises nothing.
C13_NullPoseOnlyRequests ==
  C13_NullPose =>
    /\ Len(frameLog) = 2
    /\ frameLog[2].op = "requestAnimationFrame"
    /\ \A i \in DOMAIN frameLog :
         frameLog[i].op \notin {"clear", "texImage2D", "drawArrays",
                                "logError", "caught"}

\* a frame without pose has run on a session that had drawn before
C13_NullPoseFrameRun ==
  /\ C13_NullPose
  /\ Count(frameLog, "requestAnimationFrame") = 1
  /\ hasLoggedLeftVideo

\* the operations named op in a frame log, and the eyes they were for
OpsOf(log, op) == SelectSeq(log, LAMBDA o : o.op = op)
EyesOf(log, op) == [i \in DOMAIN OpsOf(log, op) |-> OpsOf(log, op)[i].eye]

\* the last run of onXRFrame reached the view loop; the views it was given
Drawn == Count(frameLog, "pose.views") = 1
ViewsGiven == OpsOf(frameLog, "pose.views")[1].val.eyes

\* an exception reached the catch of onXRFrame
FrameThrew == Count(frameLog, "logError") > 0

\* the last run reached the view loop and found no video decodable
C14_NeitherDecodable ==
  /\ Drawn
  /\ \A i \in DOMAIN frameLog :
       frameLog[i].op = "video.readyState" => frameLog[i].val = Flag(FALSE)

\* C14: a frame that finds neither video decodable uploads no texture and
\* raises nothing on that account, and (unless a send or a draw call itself
\* threw) still binds the eye's texture and issues a draw for every view.
C14_DrawsWithoutUpload ==
  C14_NeitherDecodable =>
    /\ Count(frameLog, "texImage2D") = 0
    /\ \A i \in DOMAIN frameLog :
         frameLog[i].op \in {"caught", "logError"} =>
           frameLog[i].val.t \notin {"video.readyState", "texImage2D",
                                    "setStatus", "bindTexture"}
    /\ ~FrameThrew =>
         /\ EyesOf(frameLog, "bindTexture") = ViewsGiven
         /\ EyesOf(frameLog, "drawArrays") = ViewsGiven

\* a stereo frame drawn with neither video decodable
C14_StereoFrameWithoutVideo ==
  /\ C14_NeitherDecodable
  /\ ViewsGiven = Stereo
  /\ Count(frameLog, "video.readyState") = 2
  /\ Count(frameLog, "drawArrays") = 2

\* the last run of onXRFrame had a viewer pose while initGLResources had
\* not completed: no linked program, no uniform locations
C15_PoseWithoutGLResources ==
  /\ frameLog # <<>>
  /\ frameLog[1].op = "getViewerPose"
  /\ frameLog[1].val # Null
  /\ ~(program = "linked" /\ samplerLoc /\ uTexOffsetLoc)

\* C15: a frame that finds the GPU resources not initialised clears nothing
\* and draws nothing, and (unless a send threw before) requests the next
\* frame and returns.
C15_NoDrawWithoutGLResources ==
  C15_PoseWithoutGLResources =>
    /\ \A i \in DOMAIN frameLog :
         frameLog[i].op \notin {"bindFramebuffer", "clear", "useProgram",
                                "viewport", "texImage2D", "bindTexture",
                                "drawArrays"}
    /\ ~FrameThrew =>
         /\ Count(frameLog, "requestAnimationFrame") = 1
         /\ frameLog[Len(frameLog)].op = "requestAnimationFrame"

\* a frame with a pose and an open channel ran while the program was never
\* compiled
C15_FrameBeforeGLResources ==
  /\ C15_PoseWithoutGLResources
  /\ program = "null"
  /\ Count(frameLog, "send") = 2
  /\ Count(frameLog, "requestAnimationFrame") = 1

\* the 'video not ready' statuses for an eye in a frame log
Stalls(log, eye) ==
  Cardinality({i \in DOMAIN log : log[i].op = "setStatus" /\ log[i].eye = eye})

\* C16: over any sequence of frames the 'video not ready' status is emitted
\* at most once for the left and at most once for the right video: a run of
\* onXRFrame emits it at most once per eye, never for an eye whose flag is
\* set, and sets the flag of an eye it emitted it for; a flag once set
\* stays set.
C16_StallStatusOnce ==
  [][/\ frameLog' # frameLog =>
          /\ Stalls(frameLog', "left") <= (IF hasLoggedLeftVideo THEN 0 ELSE 1)
          /\ Stalls(frameLog', "right") <= (IF hasLoggedRightVideo THEN 0 ELSE 1)
          /\ Stalls(frameLog', "left") > 0 => hasLoggedLeftVideo'
          /\ Stalls(frameLog', "right") > 0 => hasLoggedRightVideo'
     /\ frameLog' = frameLog =>
          /\ hasLoggedLeftVideo' = hasLoggedLeftVideo
          /\ hasLoggedRightVideo' = hasLoggedRightVideo
     /\ hasLoggedLeftVideo => hasLoggedLeftVideo'
     /\ hasLoggedRightVideo => hasLoggedRightVideo']_vars

\* a frame drawn two left views with the left video stalled after the
\* stall had been reported: the log holds no status for it
C16_StalledAgainSilently ==
  /\ Drawn
  /\ ViewsGiven = <<"left", "left">>
  /\ hasLoggedLeftVideo
  /\ Stalls(frameLog, "left") = 0
  /\ \A i \in DOMAIN frameLog :
       frameLog[i].op = "video.readyState" => frameLog[i].val = Flag(FALSE)
  /\ Count(frameLog, "video.readyState") = 2

\* the last run of onXRFrame had a viewer pose and found the channel open,
\* and neither a send nor the polling of the input sources threw
C17_PoseAndOpenChannel ==
  /\ frameLog # <<>>
  /\ frameLog[1].op = "getViewerPose"
  /\ frameLog[1].val # Null
  /\ Count(frameLog, "dataChannel.readyState") > 0
  /\ \A i \in DOMAIN frameLog :
       frameLog[i].op = "dataChannel.readyState" =>
         frameLog[i].val.ref # 0 /\ frameLog[i].val.readyState = "open"
  /\ \A i \in DOMAIN frameLog : ~ThrownAt(frameLog, i)

\* the messages sent in the last run, in order
C17_Sent == [i \in DOMAIN OpsOf(frameLog, "send") |->
               OpsOf(frameLog, "send")[i].val]

\* C17: a frame with a viewer pose and an open channel sends exactly two
\* messages: first the pose message of that frame's position and
\* orientation, then one controller message, on the drawing path and on
\* the path that returns before drawing.
C17_PoseThenController ==
  C17_PoseAndOpenChannel =>
    /\ Len(C17_Sent) = 2
    /\ C17_Sent[1] = PoseMessage(frameLog[1].val)
    /\ C17_Sent[2].type = "controller"
    /\ C2_PathNoSampler(frameLog) \/ C2_PathDrawn(frameLog)

\* a frame that returned before drawing sent the pose and the controller
\* message
C17_TwoMessagesWithoutDraw ==
  /\ C17_PoseAndOpenChannel
  /\ C2_PathNoSampler(frameLog)
  /\ ~C2_PathDrawn(frameLog)
  /\ Len(C17_Sent) = 2
  /\ C17_Sent[1] = PoseMessage(PoseB)

\* the first position in the start-up log of click e of an event with
\* operation op and argument arg; 0 when there is none
C18_At(e, op, arg) ==
  LET is == {i \in Did(e, op) : startLog[e][i].arg = arg}
  IN  IF is = {} THEN 0 ELSE CHOOSE i \in is : \A j \in is : i <= j

\* startXR of click e went, in order, through the answer, the calibration
\* and the two offsets before it scheduled onXRFrame
C18_InOrder(e) ==
  /\ 0 < C18_At(e, "setRemoteDescription", "answer")
  /\ C18_At(e, "setRemoteDescription", "answer") < C18_At(e, "calibration", "ok")
  /\ C18_At(e, "calibration", "ok") < C18_At(e, "perEyeTexOffset", "left")
  /\ C18_At(e, "perEyeTexOffset", "left") < C18_At(e, "perEyeTexOffset", "right")
  /\ C18_At(e, "perEyeTexOffset", "right") < C18_At(e, "requestAnimationFrame", "")
  /\ \A i \in Did(e, "initGLResources") :
       /\ C18_At(e, "calibration", "ok") < i
       /\ i < C18_At(e, "perEyeTexOffset", "left")

\* C18: a startXR that has scheduled onXRFrame has before, in this order,
\* applied the answer, fetched and validated the calibration, initialised
\* the GPU resources and computed both offsets; and no frame callback is
\* pending or has run while any of these is missing.
C18_ScheduledAfterSetup ==
  /\ \A e \in Enters :
       at[e] = "done" =>
         /\ C18_InOrder(e)
         /\ program = "linked" /\ samplerLoc /\ uTexOffsetLoc
         /\ texOffsetLeft.t # "null" /\ texOffsetRight.t # "null"
  /\ (frameLog # <<>> \/ \E s \in Enters : rafPending[s] > 0) =>
       \E e \in Enters : at[e] = "done"

\* the positions of the operations named op in the last frame log
C19_Where(op) == {i \in DOMAIN frameLog : frameLog[i].op = op}

\* C19: a run of onXRFrame that draws clears the layer exactly once and
\* before every per-eye draw, requests the next frame at most once and only
\* after the last draw, and (unless a call threw into the catch of
\* onXRFrame) draws every view of pose.views exactly once, in order, and
\* ends with the request.
C19_ClearDrawRequest ==
  Drawn =>
    /\ Cardinality(C19_Where("clear")) = 1
    /\ \A i \in C19_Where("clear") :
         \A j \in C19_Where("viewport") \cup C19_Where("drawArrays") : i < j
    /\ Cardinality(C19_Where("requestAnimationFrame")) <= 1
    /\ \A i \in C19_Where("requestAnimationFrame") :
         \A j \in C19_Where("clear") \cup C19_Where("viewport")
                  \cup C19_Where("drawArrays") : j < i
    /\ Len(EyesOf(frameLog, "drawArrays")) <= Len(ViewsGiven)
    /\ ~FrameThrew =>
         /\ EyesOf(frameLog, "drawArrays") = ViewsGiven
         /\ C19_Where("requestAnimationFrame") = {Len(frameLog)}

\* a stereo frame drawn from two decodable videos, then the request
C19_StereoFrameDrawn ==
  /\ Drawn
  /\ ViewsGiven = Stereo
  /\ Count(frameLog, "texImage2D") = 2
  /\ Count(frameLog, "drawArrays") = 2
  /\ frameLog[Len(frameLog)].op = "requestAnimationFrame"

\* the operations of the pass that ends in the draw at position i: those
\* after the viewport operation that precedes it
C20_Pass(i) ==
  {j \in 1 .. i - 1 :
     \E v \in C19_Where("viewport") :
       /\ v < j
       /\ \A w \in C19_Where("viewport") : w < i => w <= v}

\* the offset computed for an eye
C20_Offset(eye) == IF eye = "left" THEN texOffsetLeft ELSE texOffsetRight

\* C20: whatever the position of a view in pose.views, the draw of a view
\* whose eye is "left" is made with the left video uploaded to and bound as
\* the left texture and with the left offset set, and the draw of a "right"
\* view with the right texture and the right offset.
C20_EyeSelectsTextureAndOffset ==
  \A i \in C19_Where("drawArrays") :
    /\ frameLog[i].eye \in Eyes
    /\ \A j \in C20_Pass(i) : frameLog[j].eye = frameLog[i].eye
    /\ \E j \in C20_Pass(i) : frameLog[j].op = "bindTexture"
    /\ \E j \in C20_Pass(i) :
         /\ frameLog[j].op = "uniform2fv"
         /\ frameLog[j].val = C20_Offset(frameLog[i].eye)

\* a frame whose first view is the right eye and whose second the left,
\* both videos decodable, drawn with two different offsets
C20_RightViewFirst ==
  /\ Drawn
  /\ ViewsGiven = <<"right", "left">>
  /\ Count(frameLog, "drawArrays") = 2
  /\ Count(frameLog, "texImage2D") = 2
  /\ texOffsetLeft # texOffsetRight

\* what a run of onXRFrame does to the layer: the graphics calls of its log
C21_Drawing(log) ==
  SelectSeq(log, LAMBDA o :
    o.op \in {"bindFramebuffer", "clear", "useProgram", "viewport",
              "texImage2D", "bindTexture", "uniform1i", "uniform2fv",
              "drawArrays"})

\* the log of a run of onXRFrame in the present state with pose p
C21_RunWith(p, views, ready, fault) ==
  Run(FrameOps([pose |-> p, views |-> views, ready |-> ready,
                inputSources |-> NoSources, now |-> 1000]), fault)

\* C21: in every state, two runs of onXRFrame that differ only in the
\* position and orientation of the viewer pose (same views, same video
\* readiness, same calibration and offsets, same failing operation if any)
\* issue the same graphics calls: texture uploads and bindings, offset
\* uniforms and draws.
C21_DrawingIndependentOfPose ==
  \A views \in ViewLists, ready \in [left : BOOLEAN, right : BOOLEAN],
     fault \in Faults :
    C21_Drawing(C21_RunWith(PoseA, views, ready, fault)) =
    C21_Drawing(C21_RunWith(PoseB, views, ready, fault))

\* a frame with the second pose was drawn in stereo with the channel open,
\* its pose message differing from the one of the first pose
C21_OtherPoseDrawn ==
  /\ Drawn
  /\ frameLog[1].val = PoseB
  /\ \E i \in DOMAIN frameLog :
       /\ frameLog[i].op = "send"
       /\ frameLog[i].val = PoseMessage(PoseB)
       /\ frameLog[i].val # PoseMessage(PoseA)
  /\ ViewsGiven = Stereo
  /\ C21_Drawing(frameLog) =
       C21_Drawing(C21_RunWith(PoseA, Stereo,
                               [left |-> TRUE, right |-> TRUE], "none"))
  /\ Count(frameLog, "texImage2D") = 2

(***************************************************************************)
(* Properties of perEyeTexOffset, checked under SpecOffset.                *)
(***************************************************************************)
\* |x| <= 2^-k for a rational x, without a product that could overflow
WithinPow2(x, k) == ~IsNaN(x) /\ Abs(x.n) <= x.d \div Pow2(k)

\* both eyes' offsets of the call have been computed
BothCalled ==
  offsetCall # NoCall /\ offsetCall.left # Null /\ offsetCall.right # Null

\* the terms of the correction, as exact numbers:
\*   dx_pp = (cx - width/2) / width, dy_pp = (cy - height/2) / height,
\*   conv = fx * baseline_m / (2 * convergence_m * width)
Term_dx_pp ==
  QDiv(QSub(offsetCall.K.e[1].e[3].q, QDiv(offsetCall.width, Q(2, 1))),
       offsetCall.width)
Term_dy_pp ==
  QDiv(QSub(offsetCall.K.e[2].e[3].q, QDiv(offsetCall.height, Q(2, 1))),
       offsetCall.height)
Term_conv ==
  QDiv(QMul(offsetCall.K.e[1].e[1].q, offsetCall.baseline_m.q),
       QMul(QMul(Q(2, 1), offsetCall.convergence_m), offsetCall.width))

\* C22 as stated: the horizontal offsets of the two eyes for the same K add
\* up to exactly -2 * dx_pp.
C22_MirrorExact ==
  BothCalled =>
    QAdd(offsetCall.left.du, offsetCall.right.du) =
      QMul(Q(-2, 1), Term_dx_pp)

\* C22 amended: the horizontal offsets of the two eyes for the same K add up
\* to -2 * dx_pp up to the rounding of the two results to single precision:
\* for offsets below 1 in magnitude the sum differs from -2 * dx_pp by at
\* most 2^-24, and by nothing when the principal point is centred
\* (dx_pp = 0).
C22_MirrorUpToRounding ==
  BothCalled =>
    /\ WithinPow2(offsetCall.left.du, 0) /\ WithinPow2(offsetCall.right.du, 0)
    /\ WithinPow2(QAdd(QAdd(offsetCall.left.du, offsetCall.right.du),
                       QMul(Q(2, 1), Term_dx_pp)), F32Bits)
    /\ Term_dx_pp = Q(0, 1) =>
         QAdd(offsetCall.left.du, offsetCall.right.du) = Q(0, 1)

\* both offsets computed for a principal point off centre, their sum not
\* exactly -2 * dx_pp
C22_RoundedOffCentre ==
  /\ BothCalled
  /\ Term_dx_pp # Q(0, 1)
  /\ QAdd(offsetCall.left.du, offsetCall.right.du) #
       QMul(Q(-2, 1), Term_dx_pp)

\* sign(left) = +1, sign(right) = -1
Sign(eye) == IF eye = "left" THEN Q(1, 1) ELSE Q(-1, 1)

\* the offsets as exact numbers: du = -dx_pp + sign(eye) * conv, dv = dy_pp
ExactDu(eye) == QAdd(QNeg(Term_dx_pp), QMul(Sign(eye), Term_conv))
ExactDv == Term_dy_pp

\* the arguments of the example: fx = 800, cx = 640, cy = 360, 1280 x 720,
\* baseline 0.075 m, convergence 1.2 m
C23_Example ==
  /\ offsetCall # NoCall
  /\ offsetCall.K = KCentred
  /\ offsetCall.width = Q(1280, 1) /\ offsetCall.height = Q(720, 1)
  /\ offsetCall.baseline_m = JNum(75, 1000)
  /\ offsetCall.convergence_m = Q(12, 10)

\* C23 as stated: perEyeTexOffset returns exactly du = -dx_pp + sign(eye) *
\* conv and dv = dy_pp.
C23_ExactFormula ==
  offsetCall # NoCall =>
    \A eye \in Eyes :
      offsetCall[eye] # Null =>
        offsetCall[eye].du = ExactDu(eye) /\ offsetCall[eye].dv = ExactDv

\* C23 amended: perEyeTexOffset returns a Float32Array of the roundings to
\* single precision of du = -dx_pp + sign(eye) * conv and dv = dy_pp; for
\* the arguments of the example the principal-point terms are 0 and the
\* offsets are exactly (+conv, 0) and (-conv, 0), conv = 5/256.
C23_RoundedFormula ==
  offsetCall # NoCall =>
    \A eye \in Eyes :
      offsetCall[eye] # Null =>
        /\ offsetCall[eye].t = "Float32Array"
        /\ offsetCall[eye].du = Fround(ExactDu(eye))
        /\ offsetCall[eye].dv = Fround(ExactDv)
        /\ C23_Example =>
             /\ Term_dx_pp = Q(0, 1) /\ Term_dy_pp = Q(0, 1)
             /\ Term_conv = Q(800 * 75, 2 * 12 * 100 * 1280)
             /\ Term_conv = Q(5, 256)
             /\ offsetCall[eye].du = QMul(Sign(eye), Term_conv)
             /\ offsetCall[eye].dv = Q(0, 1)

\* both offsets have been computed for the arguments of the example
C23_ExampleComputed ==
  /\ C23_Example
  /\ BothCalled
  /\ offsetCall.left.du = Q(5, 256)
  /\ offsetCall.right.du = Q(-5, 256)

\* the call has both results, and the doubled convergence distance is one
\* of the distances of the model
C24_Doubling ==
  /\ BothCalled
  /\ QMul(Q(2, 1), offsetCall.convergence_m) \in OffsetConvergences

\* du_left - du_right of the call
C24_Disparity == QSub(offsetCall.left.du, offsetCall.right.du)

\* du of the same call made with twice the convergence distance
C24_DuAtDouble(eye) ==
  perEyeTexOffset(offsetCall.K, offsetCall.width, offsetCall.height,
                  offsetCall.baseline_m,
                  QMul(Q(2, 1), offsetCall.convergence_m), eye).du

\* du_left - du_right at twice the convergence distance
C24_DisparityAtDouble ==
  QSub(C24_DuAtDouble("left"), C24_DuAtDouble("right"))

\* C24 as stated: with K, width and baseline fixed, doubling convergence_m
\* halves the difference du_left - du_right.
C24_HalvesExactly ==
  C24_Doubling =>
    C24_Disparity = QMul(Q(2, 1), C24_DisparityAtDouble)

\* C24 amended: doubling convergence_m halves the difference du_left -
\* du_right up to the rounding of the offsets to single precision (the
\* difference and twice the difference at the doubled distance differ by at
\* most 2^-22 for offsets below 1 in magnitude), and exactly when the
\* principal point is centred, where du_left itself halves.
C24_HalvesUpToRounding ==
  C24_Doubling =>
    /\ WithinPow2(offsetCall.left.du, 0) /\ WithinPow2(offsetCall.right.du, 0)
    /\ C24_Disparity # Q(0, 1)
    /\ WithinPow2(QSub(C24_Disparity, QMul(Q(2, 1), C24_DisparityAtDouble)),
                  F32Bits - 2)
    /\ Term_dx_pp = Q(0, 1) =>
         /\ C24_Disparity = QMul(Q(2, 1), C24_DisparityAtDouble)
         /\ offsetCall.left.du = QMul(Q(2, 1), C24_DuAtDouble("left"))

\* both offsets computed for an off-centre principal point at a distance
\* whose double halves the difference only up to rounding
C24_HalvedOffCentre ==
  /\ C24_Doubling
  /\ Term_dx_pp # Q(0, 1)
  /\ C24_Disparity # QMul(Q(2, 1), C24_DisparityAtDouble)
  /\ WithinPow2(QSub(C24_Disparity, QMul(Q(2, 1), C24_DisparityAtDouble)),
                F32Bits - 2)

(***************************************************************************)
(* Further properties of onXRFrame, checked under SpecFrame.               *)
(***************************************************************************)
\* C25: every run of onXRFrame that starts with the channel open and in
\* which nothing is thrown sends a controller message, the runs without a
\* viewer pose included.
C25_ControllerEveryFrame ==
  [][(/\ frameLog' # frameLog
      /\ ChannelIsOpen
      /\ \A i \in DOMAIN frameLog' : ~ThrownAt(frameLog', i))
     => \E i \in DOMAIN frameLog' :
          /\ frameLog'[i].op = "send"
          /\ frameLog'[i].val.type = "controller"]_vars

(***************************************************************************)
(* Further properties of startXR, checked under Spec.                      *)
(***************************************************************************)
\* C26: every startWebRTC creates its offer on, and applies the local
\* description and the remote answer to, the peer connection it created
\* itself, also when another enter starts a startWebRTC in between.
C26_OwnConnection ==
  \A e \in Enters : \A i \in DOMAIN startLog[e] :
    startLog[e][i].op \in {"createOffer", "setLocalDescription",
                           "setRemoteDescription"}
      => startLog[e][i].on = e

\* the channels created so far
C27_Created == {c \in Enters : channels[c].created}

\* C27: once a telemetry channel exists, the variable dataChannel is null
\* only if the most recently created channel has closed: the close of an
\* earlier channel does not discard the reference to a newer one.
C27_NullOnlyIfNewestClosed ==
  (C27_Created # {} /\ dataChannel = 0) =>
    \E c \in C27_Created :
      /\ \A d \in C27_Created : d <= c
      /\ channels[c].readyState = "closed"

\* C28: the stored calibration profile is never a payload that failed the
\* validation of loadCalibration: it is null (nothing loaded yet) or a
\* payload the validation accepts, whatever loadCalibration calls failed.
C28_StoredProfileValidated ==
  calib = Null \/ CalibAccepted(calib)

\* the step is a run of onXRFrame: it leaves the start-up, the connections
\* and the channels alone and changes what frames change
C29_FrameStep ==
  /\ at' = at /\ peers' = peers /\ channels' = channels
  /\ \/ frameLog' # frameLog
     \/ rafPending' # rafPending
     \/ hasLoggedLeftVideo' # hasLoggedLeftVideo
     \/ hasLoggedRightVideo' # hasLoggedRightVideo

\* the step is the part of startXR that follows loadCalibration
C29_StartXRStep ==
  \E e \in Enters : at[e] = "fetchCalibration" /\ at'[e] # "fetchCalibration"

\* C29: a run of onXRFrame changes neither the calibration profile nor the
\* two offsets nor the streams bound to the two video elements; the profile
\* and the offsets are written only by startXR (loadCalibration and the two
\* perEyeTexOffset calls that follow it), the streams only by ontrack.
C29_FramesLeaveCorrectionAlone ==
  [][/\ C29_FrameStep =>
          /\ calib' = calib
          /\ texOffsetLeft' = texOffsetLeft
          /\ texOffsetRight' = texOffsetRight
          /\ srcObject' = srcObject
     /\ (calib' # calib \/ texOffsetLeft' # texOffsetLeft
           \/ texOffsetRight' # texOffsetRight) => C29_StartXRStep
     /\ srcObject' # srcObject => peers' # peers]_vars

\* a stereo frame was drawn with both offsets set and both videos bound,
\* and reported the right video as stalled
C29_DrawnWithOffsetsAndStreams ==
  /\ Drawn
  /\ Count(frameLog, "uniform2fv") = 2
  /\ Stalls(frameLog, "right") = 1
  /\ texOffsetLeft # Null /\ texOffsetRight # Null
  /\ CalibAccepted(calib)
  /\ srcObject["left"] # NoTrack /\ srcObject["right"] # NoTrack

\* the uploads that threw in the last run of onXRFrame
C30_UploadThrown ==
  {i \in DOMAIN frameLog :
     ThrownAt(frameLog, i) /\ frameLog[i].val.t = "texImage2D"}

\* C30: an upload that throws in updateTextureFromVideo is caught there:
\* nothing reaches the catch of onXRFrame, the texture of that eye is still
\* bound and the eye drawn in the same pass, every view of the frame is
\* drawn, and the next frame is requested.
C30_UploadFailureSkipsUploadOnly ==
  \A i \in C30_UploadThrown :
    /\ frameLog[i].op = "caught"
    /\ ~FrameThrew
    /\ \E j \in C19_Where("drawArrays") :
         /\ i \in C20_Pass(j)
         /\ frameLog[j].eye = frameLog[i].eye
         /\ \E k \in C20_Pass(j) :
              k > i /\ frameLog[k].op = "bindTexture"
                    /\ frameLog[k].eye = frameLog[i].eye
    /\ EyesOf(frameLog, "drawArrays") = ViewsGiven
    /\ C19_Where("requestAnimationFrame") = {Len(frameLog)}

\* a stereo frame in which the uploads of both eyes threw and both eyes
\* were drawn
C30_BothUploadsFailed ==
  /\ Cardinality(C30_UploadThrown) = 2
  /\ ViewsGiven = Stereo
  /\ Count(frameLog, "drawArrays") = 2
  /\ Count(frameLog, "requestAnimationFrame") = 1

(***************************************************************************)
(* The order of negotiation in startWebRTC.                                *)
(***************************************************************************)
\* the first and the last entry of startLog[e] for an operation (0: none)
C31_First(e, op) ==
  IF Did(e, op) = {} THEN 0
  ELSE CHOOSE i \in Did(e, op) : \A j \in Did(e, op) : i <= j

C31_Last(e, op) ==
  IF Did(e, op) = {} THEN 0
  ELSE CHOOSE i \in Did(e, op) : \A j \in Did(e, op) : j <= i

\* the connection of click e has its telemetry channel and exactly two
\* receive-only video transceivers
C31_SetUp(e) ==
  /\ peers[e].created
  /\ channels[e].created /\ channels[e].label = "poseData"
  /\ Len(peers[e].transceivers) = 2
  /\ \A k \in DOMAIN peers[e].transceivers :
       peers[e].transceivers[k] = [kind |-> "video", direction |-> "recvonly"]

\* C31: startWebRTC negotiates in a fixed order.  When the offer of a
\* click is created, its connection (with the track handler it is born
\* with), its telemetry channel and exactly two receive-only video
\* transceivers exist; the offer is sent to /offer only after
\* setLocalDescription was called with it and settled; setRemoteDescription
\* is called only after the response was received, and never when the
\* response carries an error.
C31_NegotiationOrder ==
  \A e \in Enters :
    /\ Did(e, "createOffer") # {} =>
         /\ C31_SetUp(e)
         /\ 0 < C31_First(e, "createDataChannel")
         /\ C31_First(e, "createDataChannel") < C31_First(e, "createOffer")
    /\ \A i \in Did(e, "fetch") :
         startLog[e][i].arg = "/offer" =>
           /\ C31_First(e, "createOffer") < C31_First(e, "setLocalDescription")
           /\ C31_Last(e, "setLocalDescription") < i
           /\ at[e] # "setLocalDescription"
    /\ \A i \in Did(e, "setRemoteDescription") :
         /\ C31_First(e, "fetch") < C31_First(e, "response")
         /\ C31_Last(e, "response") < i
         /\ startLog[e][C31_Last(e, "response")].arg \notin
              {"error", "network error", "notjson"}
    /\ \A i \in Did(e, "response") :
         startLog[e][i].arg = "error" => Did(e, "setRemoteDescription") = {}

\* C31 witness: one click went through the whole negotiation and its
\* answer was applied, another received an {error} and stopped there
C31_NegotiatedAndRefused ==
  /\ \E e \in Enters :
       /\ Did(e, "setRemoteDescription") # {}
       /\ peers[e].remoteDescription = e
  /\ \E e \in Enters :
       /\ \E i \in Did(e, "response") : startLog[e][i].arg = "error"
       /\ at[e] = "failed"

(***************************************************************************)
(* The controller message, checked under SpecController.                   *)
(***************************************************************************)
\* the input sources that have a gamepad
C32_WithGamepad ==
  {i \in DOMAIN controllerCall.inputSources :
     controllerCall.inputSources[i].gamepad.present}

\* those of a hand whose gamepad has at least 4 axes
C32_WithStick(hand) ==
  {i \in C32_WithGamepad :
     /\ controllerCall.inputSources[i].handedness = hand
     /\ Len(controllerCall.inputSources[i].gamepad.axes) >= 4}

\* button b of a gamepad of one of the hands is pressed
C32_Down(hands, b) ==
  \E i \in C32_WithGamepad :
    /\ controllerCall.inputSources[i].handedness \in hands
    /\ b < Len(controllerCall.inputSources[i].gamepad.buttons)
    /\ controllerCall.inputSources[i].gamepad.buttons[b + 1]

C32_Keys ==
  {hand \o "_trigger" : hand \in Hands} \cup
  {hand \o "_grip" : hand \in Hands} \cup
  {"plow_up", "plow_down", "lights", "horn"}

\* the sticks and the buttons of message m are those of the input sources
C32_Content(m) ==
  /\ m.type = "controller"
  /\ \A hand \in {"left", "right"} :
       LET stick == IF hand = "left" THEN m.leftJoystick ELSE m.rightJoystick
           with == C32_WithStick(hand)
       IN  IF with = {} THEN stick = [x |-> 0, y |-> 0]
           ELSE LET last == CHOOSE i \in with : \A j \in with : j <= i
                    axes == controllerCall.inputSources[last].gamepad.axes
                IN  stick = [x |-> axes[3], y |-> 0 - axes[4]]
  /\ m.buttons \subseteq C32_Keys
  /\ \A hand \in Hands :
       /\ (hand \o "_trigger") \in m.buttons <=> C32_Down({hand}, 0)
       /\ (hand \o "_grip") \in m.buttons <=> C32_Down({hand}, 1)
  /\ "plow_up" \in m.buttons <=> C32_Down(Hands, 4)
  /\ "plow_down" \in m.buttons <=> C32_Down(Hands, 5)
  /\ "lights" \in m.buttons <=> C32_Down({"right"}, 1)
  /\ "horn" \in m.buttons <=> C32_Down({"left"}, 1)

\* C32 as stated: the controller message is a function of the input
\* sources only, so two messages built from the same sources are the same
\* message, and its sticks and buttons are those of the sources.
C32_FunctionOfSourcesOnly ==
  controllerCall # NoCall =>
    \A i, j \in DOMAIN controllerCall.messages :
      /\ C32_Content(controllerCall.messages[i])
      /\ controllerCall.messages[i] = controllerCall.messages[j]

\* C32, amended: apart from its timestamp, which is the time of the call,
\* the controller message is a function of the input sources only.  For
\* each hand the stick is {x: axes[2], y: -axes[3]} of the last source of
\* that hand whose gamepad has at least 4 axes and {x: 0, y: 0} when there
\* is none; sources without a gamepad count for nothing; and a button key
\* is in the message exactly when the corresponding button is pressed.
C32_FunctionOfSourcesAndClock ==
  controllerCall # NoCall =>
    \A i, j \in DOMAIN controllerCall.messages :
      /\ C32_Content(controllerCall.messages[i])
      /\ controllerCall.messages[i].timestamp \in ControllerClock
      /\ [controllerCall.messages[i] EXCEPT !.timestamp = 0] =
           [controllerCall.messages[j] EXCEPT !.timestamp = 0]

\* C32 witness: two messages built at different times from a left
\* controller with a stick, its grip and its X pressed, and a right controller
\* whose gamepad has 3 axes
C32_TwoHandsTwice ==
  /\ controllerCall # NoCall
  /\ Len(controllerCall.messages) = 2
  /\ controllerCall.messages[1].timestamp # controllerCall.messages[2].timestamp
  /\ C32_WithStick("left") # {} /\ C32_WithStick("right") = {}
  /\ \E i \in C32_WithGamepad :
       controllerCall.inputSources[i].handedness = "right"
  /\ controllerCall.messages[2].leftJoystick = [x |-> 3, y |-> 5]
  /\ controllerCall.messages[2].rightJoystick = [x |-> 0, y |-> 0]
  /\ controllerCall.messages[2].buttons = {"left_grip", "horn", "plow_up"}

(***************************************************************************)
(* onXRFrame of src/static/index.js, checked under SpecStatic.             *)
(***************************************************************************)
\* the shift matrix computed for an eye
C33_Proj(eye) == IF eye = "left" THEN projLeft ELSE projRight

\* C33: in src/static/index.js, whatever the position of a view in
\* pose.views, the draw of a view whose eye is "left" is made with the left
\* video uploaded to and bound as the left texture and with the left shift
\* matrix, and the draw of a "right" view with the right texture and the
\* right matrix.
C33_EyeSelectsTextureAndMatrix ==
  \A i \in C19_Where("drawArrays") :
    /\ \A j \in C20_Pass(i) : frameLog[j].eye = frameLog[i].eye
    /\ \E j \in C20_Pass(i) : frameLog[j].op = "bindTexture"
    /\ \A j \in C20_Pass(i) :
         frameLog[j].op = "uniformMatrix4fv" =>
           frameLog[j].val = C33_Proj(frameLog[i].eye)

=============================================================================
